---------------------------- MODULE Spec2Model ----------------------------
(***************************************************************************)
(* A model of lakesoul-io:                                                 *)
(*   MultiPartAsyncWriter  (encoder + shared buffer + multi-part upload),  *)
(*   SortAsyncWriter       (bounded queue + background sort task),         *)
(*   InMemBuf              (the shared buffer and its try-borrow),         *)
(*   SyncSendableMutable{LakeSoulReader,LakeSoulWriter} (the facades),     *)
(*   LakeSoulReader        (new, start, next_rb),                          *)
(*   MergedArrayData       (the column builders of one batch),             *)
(*   Parser                (the filter strings and their Exprs).           *)
(* The parquet encoder, the sort operator, the query engine, the tokio     *)
(* channel and the object store are libraries: they are modelled by what   *)
(* the calls made in the source rely on, with their failures as            *)
(* nondeterministic inputs.                                                *)
(***************************************************************************)
EXTENDS Integers, Sequences, FiniteSets, TLC

(***************************************************************************)
(* Bounds of the model.                                                    *)
(***************************************************************************)
\* largest number of rows of one submitted batch
MaxBatchRows == 2
\* largest number of write_record_batch calls on one writer
MaxWrites == 3
\* largest number of rows submitted to one writer
MaxTotalRows == 3
\* rows of one batch of the sorted stream (the session's batch size)
SortBatchRows == 2
\* most bytes the network writer accepts before a failing write fails
MaxPartial == 1
\* largest number of attempts of one holder of the shared buffer
MaxAttempts == 2
\* largest number of tasks and blocking calls on one facade
MaxTasks == 3
\* number of batches of the stream a started reader yields
StreamLen == 2
\* largest number of files of a reader's configuration
MaxFiles == 2
\* largest number of start and next_rb calls on one reader
MaxReaderCalls == 5
\* rows of one batch of the reader's stream (the session's batch size)
ReadBatchRows == 2
\* largest capacity hint of the builders of a batch
MaxCapacity == 1
\* largest number of push calls on the builders of a batch
MaxPushes == 3

(***************************************************************************)
(* Program constants.                                                      *)
(***************************************************************************)
\* with_max_row_group_size(2) of the writer tests
MaxRowGroupSize == 2

(***************************************************************************)
(* State.                                                                  *)
(***************************************************************************)
VARIABLES
    \* ---- the writer and its caller
    config,          \* LakeSoulIOConfig given to try_new
    kind,            \* "none" | "plain" | "sort": the writer that was built
    wstate,          \* "unbuilt" | "failed" | "open" | "closing" | "closed" | "dropped"
    newResult,       \* result of MultiPartAsyncWriter::try_new
    uploadRequested, \* put_multipart has been called on the object store
    mpw,             \* the MultiPartAsyncWriter
    writes,          \* write_record_batch calls made so far
    rowsIn,          \* rows submitted so far
    lastWrite,       \* result of the last write_record_batch
    firstWriteErr,   \* the first error a write_record_batch returned
    flushCalled,     \* flush_and_close has been called on the writer
    flushResult,     \* what flush_and_close returned
    flushStage,      \* last step MultiPartAsyncWriter::flush_and_close reached
    submitted,       \* rows given to the plain writer's write_record_batch, in order
    \* ---- the sorting pipeline
    queue,           \* batches in the channel
    pending,         \* <<batch>> while a send waits for capacity
    senderOpen,      \* the Sender is alive
    receiverOpen,    \* the Receiver (owned by the sorted stream) is alive
    accepted,        \* batches whose send returned Ok
    sortIn,          \* rows the sort stage has received
    lost,            \* batches discarded from the channel unreceived
    sortedOut,       \* sorted rows not yet forwarded
    tpc,             \* background task: "idle" | "sorting" | "emitting" | "done"
    taskResult,      \* the background task's result
    taskFailure,     \* which step of the background task failed
    \* ---- the shared buffer cell, used by several holders
    cell,            \* contents of the VecDeque
    borrowed,        \* holder of the mutable borrow, 0 when free
    hpc,             \* per holder: "idle" | "draining"
    hres,            \* per holder: result of its last attempt
    hcalls,          \* per holder: attempts made
    written,         \* bytes of the writes that returned Ok
    taken,           \* bytes moved out of the buffer
    \* ---- the facades
    fkind,           \* "reader" | "writer"
    mutex,           \* task holding the tokio Mutex, 0 when free
    waitq,           \* tasks waiting in lock().await, in arrival order
    fpc,             \* per task: "idle" | "spawned" | "waiting" | "running" | "done"
    fop,             \* per task: "none" | "start" | "next_rb" | "write"
    active,          \* engine operations executing now
    rstarted,        \* the reader's stream is initialized
    rpos,            \* batches next_rb has taken from the stream
    rgen,            \* streams created by successful starts
    got,             \* per task: what its callback was invoked with
    fclosed,         \* the writer facade was consumed by flush_and_close
    \* ---- a LakeSoulReader used directly
    rconfig,         \* LakeSoulReaderConfig given to LakeSoulReader::new
    rstate,          \* "unbuilt" | "failed" | "ready" | "started" | "panicked" | "crashed"
    rnew,            \* result of LakeSoulReader::new
    rstart,          \* result of the last start
    stream,          \* <<rows>> once initialized: rows the stream still yields
    rout,            \* rows the next_rb calls returned, in order
    rend,            \* a next_rb returned None
    rcalls,          \* start and next_rb calls made on the reader
    \* ---- the column builders of one batch
    cols,            \* per column: the MergedArrayData
    ops,             \* per column: the push calls made, in order
    mres,            \* per column: how the last push call ended
    mpc,             \* per column: "declared" | "building" | "panicked" |
                     \* "frozen" | "absent"
    frozen,          \* per column: the ArrayData returned by freeze
    hint,            \* per column: the capacity the builder was created with
    typed,           \* per column: every item pushed had the type's width
    \* ---- the filter parser
    filter_str,      \* the string passed to Parser::parse, as characters
    pexpr,           \* the Expr it returned, or its panic
    ppc              \* "idle" | "done"

wVars == <<config, kind, wstate, newResult, uploadRequested, mpw, writes,
           rowsIn, lastWrite, firstWriteErr, flushCalled, flushResult, flushStage,
           submitted>>

sVars == <<queue, pending, senderOpen, receiverOpen, accepted, sortIn, lost,
           sortedOut, tpc, taskResult, taskFailure>>

bVars == <<cell, borrowed, hpc, hres, hcalls, written, taken>>

fVars == <<fkind, mutex, waitq, fpc, fop, active, rstarted, rpos, rgen, got,
           fclosed>>

rVars == <<rconfig, rstate, rnew, rstart, stream, rout, rend, rcalls>>

mVars == <<cols, ops, mres, mpc, frozen, hint, typed>>

pVars == <<filter_str, pexpr, ppc>>

vars == <<wVars, sVars, bVars, fVars, rVars, mVars, pVars>>

(***************************************************************************)
(* Data: a row is a pair of key-column values, a batch a sequence of rows. *)
(***************************************************************************)
\* values of a key column
KeyVals == 1..2

Rows == KeyVals \X KeyVals

Batches == UNION {[1..n -> Rows] : n \in 1..MaxBatchRows}

\* config.primary_keys as a list of column positions; the empty list is a
\* table without primary key
PrimaryKeyChoices == {<<>>, <<1>>, <<2>>, <<1, 2>>, <<2, 1>>}

Take(s, n) == SubSeq(s, 1, IF n < Len(s) THEN n ELSE Len(s))

Drop(s, n) == SubSeq(s, n + 1, Len(s))

RECURSIVE Flatten(_)
Flatten(ss) == IF ss = <<>> THEN <<>> ELSE Head(ss) \o Flatten(Tail(ss))

(***************************************************************************)
(* The sort of SortExec under the sort expressions built from              *)
(* config.primary_keys: one ascending expression per key, in list order.   *)
(***************************************************************************)
KeyLess(r1, r2, pks) ==
    \E i \in 1..Len(pks) :
        /\ r1[pks[i]] < r2[pks[i]]
        /\ \A j \in 1..(i - 1) : r1[pks[j]] = r2[pks[j]]

RECURSIVE InsertRow(_, _, _)
InsertRow(sorted, r, pks) ==
    IF sorted = <<>> THEN <<r>>
    ELSE IF KeyLess(r, Head(sorted), pks) THEN <<r>> \o sorted
    ELSE <<Head(sorted)>> \o InsertRow(Tail(sorted), r, pks)

RECURSIVE SortRowsFrom(_, _, _)
SortRowsFrom(done, rows, pks) ==
    IF rows = <<>> THEN done
    ELSE SortRowsFrom(InsertRow(done, Head(rows), pks), Tail(rows), pks)

\* a sort that orders nothing (what a missing sort expression would do)
SortRowsUnsorted(rows, pks) == rows

\* a sort that loses the first row it received
SortRowsLossy(rows, pks) ==
    IF rows = <<>> THEN <<>> ELSE SortRowsFrom(<<>>, Tail(rows), pks)

SortRows(rows, pks) == SortRowsFrom(<<>>, rows, pks)

IsSorted(rows, pks) ==
    \A i, j \in 1..Len(rows) : i < j => ~KeyLess(rows[j], rows[i], pks)

(***************************************************************************)
(* Bytes of the file: the magic the encoder writes when created, one item  *)
(* per encoded row, the footer written by close.                           *)
(***************************************************************************)
MagicByte == [tag |-> "magic", row |-> <<>>]

FooterByte == [tag |-> "footer", row |-> <<>>]

RowByte(r) == [tag |-> "row", row |-> r]

EncodeRows(rows) == [i \in 1..Len(rows) |-> RowByte(rows[i])]

IsRowByte(b) == b.tag = "row"

DecodeRows(bytes) ==
    LET rs == SelectSeq(bytes, IsRowByte)
    IN  [i \in 1..Len(rs) |-> rs[i].row]

(***************************************************************************)
(* MultiPartAsyncWriter as a value:                                        *)
(*   rowgroup   rows buffered by the encoder, not yet a row group          *)
(*   in_mem_buf the shared buffer (InMemBuf)                               *)
(*   produced   every byte the encoder has appended to in_mem_buf          *)
(*   forwarded  every byte the network writer has accepted                 *)
(*   committed  the network writer was shut down successfully              *)
(***************************************************************************)
NewWriter ==
    [rowgroup |-> <<>>, in_mem_buf |-> <<MagicByte>>, produced |-> <<MagicByte>>,
     forwarded |-> <<>>, committed |-> FALSE]

\* InMemBuf::write_all on behalf of the encoder
BufExtend(w, bytes) ==
    [w EXCEPT !.in_mem_buf = @ \o bytes, !.produced = @ \o bytes]

\* ArrowWriter::write: buffer the rows, flush every completed row group
RECURSIVE FlushCompleted(_)
FlushCompleted(w) ==
    IF Len(w.rowgroup) < MaxRowGroupSize THEN w
    ELSE FlushCompleted(
            BufExtend([w EXCEPT !.rowgroup = Drop(@, MaxRowGroupSize)],
                      EncodeRows(Take(w.rowgroup, MaxRowGroupSize))))

ArrowWrite(w, batch) == FlushCompleted([w EXCEPT !.rowgroup = @ \o batch])

\* a close that writes the footer without the rows still buffered
ArrowCloseNoRemainder(w) ==
    BufExtend([w EXCEPT !.rowgroup = <<>>], <<FooterByte>>)

\* ArrowWriter::close: flush the remaining rows, write the footer
ArrowClose(w) ==
    BufExtend([w EXCEPT !.rowgroup = <<>>],
              EncodeRows(w.rowgroup) \o <<FooterByte>>)

\* a write_part that leaves the forwarded bytes in the buffer
WritePartNoAdvance(w, n) ==
    [w EXCEPT !.forwarded = @ \o Take(w.in_mem_buf, n)]

\* write_part with the network writer accepting n bytes before it fails
\* (n = Len(in_mem_buf): write_all_buf succeeds and leaves the buffer empty)
WritePart(w, n) ==
    [w EXCEPT !.forwarded = @ \o Take(w.in_mem_buf, n),
              !.in_mem_buf = Drop(@, n)]

(***************************************************************************)
(* Outcomes of the libraries, drawn by the actions.                        *)
(*   a network write: <<TRUE, 0>> succeeds, <<FALSE, n>> fails after the   *)
(*   network writer has accepted n bytes.                                  *)
(***************************************************************************)
NetOutcomes == {<<TRUE, 0>>} \cup {<<FALSE, n>> : n \in 0..MaxPartial}

\* bytes write_all_buf moves out of a buffer of len bytes: all of them, or
\* those accepted before the failing poll_write (at least one byte is left)
Accepted(net, len) ==
    IF net[1] THEN len ELSE IF net[2] < len THEN net[2] ELSE len - 1

Outcome(w, res, stage) == [w |-> w, res |-> res, stage |-> stage]

\* a write_batch that leaves the encoder's bytes in the buffer
WriteBatchNoDrain(w, batch, encOk, net) ==
    IF ~encOk THEN Outcome(w, "EncodingError", "encode")
    ELSE Outcome(ArrowWrite(w, batch), "Ok", "drain")

\* MultiPartAsyncWriter::write_batch
WriteBatch(w, batch, encOk, net) ==
    IF ~encOk THEN Outcome(w, "EncodingError", "encode")
    ELSE LET w1 == ArrowWrite(w, batch)
         IN  IF Len(w1.in_mem_buf) > 0
             THEN Outcome(WritePart(w1, Accepted(net, Len(w1.in_mem_buf))),
                          IF net[1] THEN "Ok" ELSE "StorageIOError", "drain")
             ELSE Outcome(w1, "Ok", "drain")

\* a flush_and_close that commits without draining the buffer
FlushAndCloseNoDrain(w, closeOk, net, shutOk) ==
    IF ~closeOk THEN Outcome(w, "EncodingError", "close")
    ELSE Outcome([ArrowClose(w) EXCEPT !.committed = shutOk],
                 IF shutOk THEN "Ok" ELSE "StorageIOError", "shutdown")

\* MultiPartAsyncWriter::flush_and_close
FlushAndClose(w, closeOk, net, shutOk) ==
    IF ~closeOk THEN Outcome(w, "EncodingError", "close")
    ELSE LET w1 == ArrowClose(w)
             w2 == IF Len(w1.in_mem_buf) > 0
                   THEN WritePart(w1, Accepted(net, Len(w1.in_mem_buf)))
                   ELSE w1
         IN  IF Len(w1.in_mem_buf) > 0 /\ ~net[1]
             THEN Outcome(w2, "StorageIOError", "drain")
             ELSE IF shutOk
                  THEN Outcome([w2 EXCEPT !.committed = TRUE], "Ok", "shutdown")
                  ELSE Outcome(w2, "StorageIOError", "shutdown")

(***************************************************************************)
(* Construction.                                                           *)
(***************************************************************************)
Configs ==
    [nfiles : 0..2, confOk : BOOLEAN, schemaOk : BOOLEAN,
     primary_keys : PrimaryKeyChoices]

\* MultiPartAsyncWriter::try_new, in the order of its statements: the file
\* count, the session context and the url, put_multipart, the schema
TryNewResult(c, putOk) ==
    IF c.nfiles # 1 THEN [res |-> "ConfigurationError", requested |-> FALSE]
    ELSE IF ~c.confOk THEN [res |-> "ConfigurationError", requested |-> FALSE]
    ELSE IF ~putOk THEN [res |-> "StorageIOError", requested |-> TRUE]
    ELSE IF ~c.schemaOk THEN [res |-> "SchemaError", requested |-> TRUE]
    ELSE [res |-> "Ok", requested |-> TRUE]

\* a construction that never builds the sorting writer
WriterKindPlain(c) == "plain"

\* SyncSendableMutableLakeSoulWriter::new: the writer chosen for a config
WriterKind(c) == IF c.primary_keys # <<>> THEN "sort" ELSE "plain"

NoWriter ==
    [rowgroup |-> <<>>, in_mem_buf |-> <<>>, produced |-> <<>>,
     forwarded |-> <<>>, committed |-> FALSE]

WInit ==
    /\ config \in Configs
    /\ kind = "none"
    /\ wstate = "unbuilt"
    /\ newResult = "none"
    /\ uploadRequested = FALSE
    /\ mpw = NoWriter
    /\ writes = 0
    /\ rowsIn = 0
    /\ lastWrite = "none"
    /\ firstWriteErr = "none"
    /\ flushCalled = FALSE
    /\ flushResult = "none"
    /\ flushStage = "none"
    /\ submitted = <<>>

SInit ==
    /\ queue = <<>>
    /\ pending = <<>>
    /\ senderOpen = FALSE
    /\ receiverOpen = FALSE
    /\ accepted = <<>>
    /\ sortIn = <<>>
    /\ lost = <<>>
    /\ sortedOut = <<>>
    /\ tpc = "idle"
    /\ taskResult = "none"
    /\ taskFailure = "none"

\* try_new, then (for a table with primary keys) SortAsyncWriter::try_new,
\* which creates the channel and spawns the background task
TryNew ==
    /\ wstate = "unbuilt"
    /\ \E putOk \in BOOLEAN :
          LET r == TryNewResult(config, putOk)
              k == WriterKind(config)
          IN  /\ newResult' = r.res
              /\ uploadRequested' = r.requested
              /\ IF r.res = "Ok"
                 THEN /\ wstate' = "open"
                      /\ kind' = k
                      /\ mpw' = NewWriter
                      /\ senderOpen' = (k = "sort")
                      /\ receiverOpen' = (k = "sort")
                      /\ tpc' = IF k = "sort" THEN "sorting" ELSE "idle"
                 ELSE /\ wstate' = "failed"
                      /\ UNCHANGED <<kind, mpw, senderOpen, receiverOpen, tpc>>
    /\ UNCHANGED <<config, submitted, writes, rowsIn, lastWrite, firstWriteErr,
                   flushCalled, flushResult, flushStage>>
    /\ UNCHANGED <<queue, pending, accepted, sortIn, lost, sortedOut,
                   taskResult, taskFailure>>
    /\ UNCHANGED <<bVars, fVars, rVars, mVars, pVars>>

(***************************************************************************)
(* The plain writer, driven by its caller.                                 *)
(***************************************************************************)
FirstErr(old, res) == IF old = "none" /\ res # "Ok" THEN res ELSE old

\* impl AsyncWriter for MultiPartAsyncWriter: write_record_batch
PlainWrite ==
    /\ kind = "plain"
    /\ wstate = "open"
    /\ writes < MaxWrites
    /\ \E batch \in Batches, encOk \in BOOLEAN, net \in NetOutcomes :
          LET o == WriteBatch(mpw, batch, encOk, net)
          IN  /\ rowsIn + Len(batch) <= MaxTotalRows
              /\ rowsIn' = rowsIn + Len(batch)
              /\ submitted' = submitted \o batch
              /\ mpw' = o.w
              /\ lastWrite' = o.res
              /\ firstWriteErr' = FirstErr(firstWriteErr, o.res)
    /\ writes' = writes + 1
    /\ UNCHANGED <<config, kind, wstate, newResult, uploadRequested,
                   flushCalled, flushResult, flushStage>>
    /\ UNCHANGED <<sVars, bVars, fVars, rVars, mVars, pVars>>

\* impl AsyncWriter for MultiPartAsyncWriter: flush_and_close
PlainFlushAndClose ==
    /\ kind = "plain"
    /\ wstate = "open"
    /\ \E closeOk \in BOOLEAN, net \in NetOutcomes, shutOk \in BOOLEAN :
          LET o == FlushAndClose(mpw, closeOk, net, shutOk)
          IN  /\ mpw' = o.w
              /\ flushResult' = o.res
              /\ flushStage' = o.stage
    /\ flushCalled' = TRUE
    /\ wstate' = "closed"
    /\ UNCHANGED <<config, submitted, kind, newResult, uploadRequested, writes, rowsIn,
                   lastWrite, firstWriteErr>>
    /\ UNCHANGED <<sVars, bVars, fVars, rVars, mVars, pVars>>

\* the writer goes out of scope without flush_and_close; for the sorting
\* writer this drops the Sender and detaches the background task
DropWriter ==
    /\ wstate = "open"
    /\ pending = <<>>
    /\ wstate' = "dropped"
    /\ senderOpen' = FALSE
    /\ UNCHANGED <<config, submitted, kind, newResult, uploadRequested, mpw, writes, rowsIn,
                   lastWrite, firstWriteErr, flushCalled, flushResult,
                   flushStage>>
    /\ UNCHANGED <<queue, pending, receiverOpen, accepted, sortIn, lost,
                   sortedOut, tpc, taskResult, taskFailure>>
    /\ UNCHANGED <<bVars, fVars, rVars, mVars, pVars>>

(***************************************************************************)
(* The sorting writer: the caller's side.                                  *)
(***************************************************************************)
\* a channel with one more slot
ChannelCapacityWider == 2 + 1

\* tokio::sync::mpsc::channel(2)
ChannelCapacity == 2

\* a send that fails instead of waiting when the channel is full
SendOutcomeNoWait(rxOpen, qlen) ==
    IF rxOpen /\ qlen < ChannelCapacity THEN "Ok" ELSE "SendError"

\* Sender::send on the bounded channel: an error once the Receiver is gone,
\* otherwise Ok as soon as the channel has a free slot
SendOutcome(rxOpen, qlen) ==
    IF ~rxOpen THEN "SendError"
    ELSE IF qlen < ChannelCapacity THEN "Ok" ELSE "Pending"

\* the part of write_record_batch that runs when send is polled
SendPoll(batch) ==
    LET o == SendOutcome(receiverOpen, Len(queue))
    IN  /\ IF o = "Ok"
           THEN /\ queue' = Append(queue, batch)
                /\ accepted' = Append(accepted, batch)
           ELSE UNCHANGED <<queue, accepted>>
        /\ pending' = IF o = "Pending" THEN <<batch>> ELSE <<>>
        /\ lastWrite' = IF o = "Pending" THEN lastWrite ELSE o
        /\ firstWriteErr' =
              IF o = "Pending" THEN firstWriteErr ELSE FirstErr(firstWriteErr, o)

\* impl AsyncWriter for SortAsyncWriter: write_record_batch is called
SortWrite ==
    /\ kind = "sort"
    /\ wstate = "open"
    /\ pending = <<>>
    /\ writes < MaxWrites
    /\ \E batch \in Batches :
          /\ rowsIn + Len(batch) <= MaxTotalRows
          /\ rowsIn' = rowsIn + Len(batch)
          /\ SendPoll(batch)
    /\ writes' = writes + 1
    /\ UNCHANGED <<config, submitted, kind, wstate, newResult, uploadRequested, mpw,
                   flushCalled, flushResult, flushStage>>
    /\ UNCHANGED <<senderOpen, receiverOpen, sortIn, lost, sortedOut, tpc,
                   taskResult, taskFailure>>
    /\ UNCHANGED <<bVars, fVars, rVars, mVars, pVars>>

\* a write_record_batch that waited for capacity is woken
SortWriteResume ==
    /\ pending # <<>>
    /\ SendOutcome(receiverOpen, Len(queue)) # "Pending"
    /\ SendPoll(pending[1])
    /\ UNCHANGED <<config, submitted, kind, wstate, newResult, uploadRequested, mpw,
                   writes, rowsIn, flushCalled, flushResult, flushStage>>
    /\ UNCHANGED <<senderOpen, receiverOpen, sortIn, lost, sortedOut, tpc,
                   taskResult, taskFailure>>
    /\ UNCHANGED <<bVars, fVars, rVars, mVars, pVars>>

\* SortAsyncWriter::flush_and_close up to its await: the Sender is dropped
SortFlushBegin ==
    /\ kind = "sort"
    /\ wstate = "open"
    /\ pending = <<>>
    /\ flushCalled' = TRUE
    /\ senderOpen' = FALSE
    /\ wstate' = "closing"
    /\ UNCHANGED <<config, submitted, kind, newResult, uploadRequested, mpw, writes, rowsIn,
                   lastWrite, firstWriteErr, flushResult, flushStage>>
    /\ UNCHANGED <<queue, pending, receiverOpen, accepted, sortIn, lost,
                   sortedOut, tpc, taskResult, taskFailure>>
    /\ UNCHANGED <<bVars, fVars, rVars, mVars, pVars>>

\* a join that swallows the task's result
JoinResultOk(tr) == "Ok"

\* what awaiting the JoinHandle yields: the task's own result
JoinResult(tr) == tr

\* SortAsyncWriter::flush_and_close after its await: the task has ended
SortFlushReturn ==
    /\ wstate = "closing"
    /\ tpc = "done"
    /\ flushResult' = JoinResult(taskResult)
    /\ wstate' = "closed"
    /\ UNCHANGED <<config, submitted, kind, newResult, uploadRequested, mpw, writes, rowsIn,
                   lastWrite, firstWriteErr, flushCalled, flushStage>>
    /\ UNCHANGED <<sVars, bVars, fVars, rVars, mVars, pVars>>

(***************************************************************************)
(* The sorting writer: the background task.                                *)
(***************************************************************************)
\* the sort stage receives one batch from the channel
SortPull ==
    /\ tpc = "sorting"
    /\ queue # <<>>
    /\ sortIn' = sortIn \o Head(queue)
    /\ queue' = Tail(queue)
    /\ UNCHANGED wVars
    /\ UNCHANGED <<pending, senderOpen, receiverOpen, accepted, lost,
                   sortedOut, tpc, taskResult, taskFailure>>
    /\ UNCHANGED <<bVars, fVars, rVars, mVars, pVars>>

\* a sort stage that emits as soon as the channel is empty
SortFinishEarly ==
    /\ tpc = "sorting"
    /\ queue = <<>>
    /\ sortedOut' = SortRows(sortIn, config.primary_keys)
    /\ tpc' = "emitting"
    /\ UNCHANGED wVars
    /\ UNCHANGED <<queue, pending, senderOpen, receiverOpen, accepted, sortIn,
                   lost, taskResult, taskFailure>>
    /\ UNCHANGED <<bVars, fVars, rVars, mVars, pVars>>

\* the channel is closed and empty: the sort stage orders what it received
SortFinish ==
    /\ tpc = "sorting"
    /\ queue = <<>>
    /\ ~senderOpen
    /\ sortedOut' = SortRows(sortIn, config.primary_keys)
    /\ tpc' = "emitting"
    /\ UNCHANGED wVars
    /\ UNCHANGED <<queue, pending, senderOpen, receiverOpen, accepted, sortIn,
                   lost, taskResult, taskFailure>>
    /\ UNCHANGED <<bVars, fVars, rVars, mVars, pVars>>

\* a task whose end leaves the Receiver and the channel as they were
TaskEndKeepsChannel(res, failure) ==
    /\ tpc' = "done"
    /\ taskResult' = res
    /\ taskFailure' = failure
    /\ UNCHANGED <<receiverOpen, lost, queue>>

\* the task ends: the sorted stream and with it the Receiver are dropped,
\* and what the channel still holds is discarded
TaskEnd(res, failure) ==
    /\ tpc' = "done"
    /\ taskResult' = res
    /\ taskFailure' = failure
    /\ receiverOpen' = FALSE
    /\ lost' = lost \o queue
    /\ queue' = <<>>

\* the sorted stream yields an error: `batch?` ends the task
SortFail ==
    /\ tpc \in {"sorting", "emitting"}
    /\ TaskEnd("SortError", "sort")
    /\ UNCHANGED wVars
    /\ UNCHANGED <<pending, senderOpen, accepted, sortIn, sortedOut>>
    /\ UNCHANGED <<bVars, fVars, rVars, mVars, pVars>>

\* the task forwards the next sorted batch to the inner writer
TaskWrite ==
    /\ tpc = "emitting"
    /\ sortedOut # <<>>
    /\ \E encOk \in BOOLEAN, net \in NetOutcomes :
          LET o == WriteBatch(mpw, Take(sortedOut, SortBatchRows), encOk, net)
          IN  /\ mpw' = o.w
              /\ IF o.res = "Ok"
                 THEN /\ sortedOut' = Drop(sortedOut, SortBatchRows)
                      /\ UNCHANGED <<queue, receiverOpen, lost, tpc,
                                     taskResult, taskFailure>>
                 ELSE /\ TaskEnd(o.res, "write")
                      /\ UNCHANGED sortedOut
    /\ UNCHANGED <<config, submitted, kind, wstate, newResult, uploadRequested, writes, rowsIn,
                   lastWrite, firstWriteErr, flushCalled, flushResult,
                   flushStage>>
    /\ UNCHANGED <<pending, senderOpen, accepted, sortIn>>
    /\ UNCHANGED <<bVars, fVars, rVars, mVars, pVars>>

\* the sorted stream has ended: the task closes the inner writer
TaskClose ==
    /\ tpc = "emitting"
    /\ sortedOut = <<>>
    /\ \E closeOk \in BOOLEAN, net \in NetOutcomes, shutOk \in BOOLEAN :
          LET o == FlushAndClose(mpw, closeOk, net, shutOk)
          IN  /\ mpw' = o.w
              /\ flushStage' = o.stage
              /\ TaskEnd(o.res, IF o.res = "Ok" THEN "none" ELSE "close")
    /\ UNCHANGED <<config, submitted, kind, wstate, newResult, uploadRequested, writes, rowsIn,
                   lastWrite, firstWriteErr, flushCalled, flushResult>>
    /\ UNCHANGED <<pending, senderOpen, accepted, sortIn, sortedOut>>
    /\ UNCHANGED <<bVars, fVars, rVars, mVars, pVars>>

(***************************************************************************)
(* The shared buffer cell (InMemBuf) used through several clones.          *)
(***************************************************************************)
\* holders of a clone of the InMemBuf
Holders == 1..2

\* byte values written by the holders
ByteVals == 1..2

BInit ==
    /\ cell = <<>>
    /\ borrowed = 0
    /\ hpc = [h \in Holders |-> "idle"]
    /\ hres = [h \in Holders |-> "none"]
    /\ hcalls = [h \in Holders |-> 0]
    /\ written = <<>>
    /\ taken = <<>>

\* a try_borrow_mut that never refuses
TryBorrowMutAlways(b) == TRUE

\* AtomicRefCell::try_borrow_mut: granted only while nobody holds a borrow
TryBorrowMut(b) == b = 0

\* impl Write for InMemBuf: write / write_all of one byte by holder h; the
\* borrow is taken and released inside the call
BufWrite(h) ==
    /\ hpc[h] = "idle"
    /\ hcalls[h] < MaxAttempts
    /\ hcalls' = [hcalls EXCEPT ![h] = @ + 1]
    /\ \E b \in ByteVals :
          IF TryBorrowMut(borrowed)
          THEN /\ cell' = Append(cell, b)
               /\ written' = Append(written, b)
               /\ hres' = [hres EXCEPT ![h] = "Ok"]
          ELSE /\ hres' = [hres EXCEPT ![h] = "ResourceBusy"]
               /\ UNCHANGED <<cell, written>>
    /\ UNCHANGED <<borrowed, hpc, taken>>
    /\ UNCHANGED <<wVars, sVars, fVars, rVars, mVars, pVars>>

\* write_batch / flush_and_close: the try_borrow_mut before write_part; the
\* borrow is kept while write_part is awaited
DrainBegin(h) ==
    /\ hpc[h] = "idle"
    /\ hcalls[h] < MaxAttempts
    /\ hcalls' = [hcalls EXCEPT ![h] = @ + 1]
    /\ IF ~TryBorrowMut(borrowed)
       THEN /\ hres' = [hres EXCEPT ![h] = "Internal"]
            /\ UNCHANGED <<borrowed, hpc>>
       ELSE IF Len(cell) > 0
            THEN /\ borrowed' = h
                 /\ hpc' = [hpc EXCEPT ![h] = "draining"]
                 /\ hres' = [hres EXCEPT ![h] = "none"]
            ELSE /\ hres' = [hres EXCEPT ![h] = "Ok"]
                 /\ UNCHANGED <<borrowed, hpc>>
    /\ UNCHANGED <<cell, written, taken>>
    /\ UNCHANGED <<wVars, sVars, fVars, rVars, mVars, pVars>>

\* write_part: the network writer accepts the next byte of the buffer
DrainStep(h) ==
    /\ hpc[h] = "draining"
    /\ cell # <<>>
    /\ taken' = Append(taken, Head(cell))
    /\ cell' = Tail(cell)
    /\ UNCHANGED <<borrowed, hpc, hres, hcalls, written>>
    /\ UNCHANGED <<wVars, sVars, fVars, rVars, mVars, pVars>>

\* write_part returns: Ok once the buffer is empty, the network writer's
\* error before that; the borrow ends with the call
DrainEnd(h) ==
    /\ hpc[h] = "draining"
    /\ hres' = [hres EXCEPT ![h] = IF cell = <<>> THEN "Ok" ELSE "StorageIOError"]
    /\ hpc' = [hpc EXCEPT ![h] = "idle"]
    /\ borrowed' = 0
    /\ UNCHANGED <<cell, hcalls, written, taken>>
    /\ UNCHANGED <<wVars, sVars, fVars, rVars, mVars, pVars>>

(***************************************************************************)
(* The facades.                                                            *)
(***************************************************************************)
Tasks == 1..MaxTasks

FInit ==
    /\ fkind \in {"reader", "writer"}
    /\ mutex = 0
    /\ waitq = <<>>
    /\ fpc = [t \in Tasks |-> "idle"]
    /\ fop = [t \in Tasks |-> "none"]
    /\ active = 0
    /\ rstarted = FALSE
    /\ rpos = 0
    /\ rgen = 0
    /\ got = [t \in Tasks |-> <<>>]
    /\ fclosed = FALSE

\* a lock that is granted whoever holds it
LockFreeAlways(m) == TRUE

\* tokio Mutex: lock().await is granted only while nobody holds the guard
LockFree(m) == m = 0

\* a facade that stays usable after flush_and_close
ConsumedNever(closed) == FALSE

\* flush_and_close takes the facade by value: once it was called there is
\* no facade left to call
Consumed(closed) == closed

\* a call that keeps its clone of the inner Arc after it returned
HoldingAfterReturn(t) == fpc[t] \in {"spawned", "waiting", "running", "done"}

\* the tasks that hold a clone of the facade's inner Arc
Holding(t) == fpc[t] \in {"spawned", "waiting", "running"}

\* SyncSendableMutableLakeSoulReader::start_blocked: block_on of
\* lock().await.start()
StartBlocked(t) ==
    /\ fkind = "reader"
    /\ fpc[t] = "idle"
    /\ fop' = [fop EXCEPT ![t] = "start"]
    /\ fpc' = [fpc EXCEPT ![t] = "waiting"]
    /\ waitq' = Append(waitq, t)
    /\ UNCHANGED <<fkind, rgen, got, mutex, active, rstarted, rpos, fclosed>>
    /\ UNCHANGED <<wVars, sVars, bVars, rVars, mVars, pVars>>

\* next_rb_callback: the task is spawned and the call returns
NextRbCallback(t) ==
    /\ fkind = "reader"
    /\ fpc[t] = "idle"
    /\ fop' = [fop EXCEPT ![t] = "next_rb"]
    /\ fpc' = [fpc EXCEPT ![t] = "spawned"]
    /\ UNCHANGED <<fkind, rgen, got, mutex, waitq, active, rstarted, rpos, fclosed>>
    /\ UNCHANGED <<wVars, sVars, bVars, rVars, mVars, pVars>>

\* a spawned task is polled for the first time and reaches lock().await
TaskPoll(t) ==
    /\ fpc[t] = "spawned"
    /\ fpc' = [fpc EXCEPT ![t] = "waiting"]
    /\ waitq' = Append(waitq, t)
    /\ UNCHANGED <<fkind, rgen, got, mutex, fop, active, rstarted, rpos, fclosed>>
    /\ UNCHANGED <<wVars, sVars, bVars, rVars, mVars, pVars>>

\* SyncSendableMutableLakeSoulWriter::write_batch: block_on of
\* lock().await, then write_record_batch
FacadeWriteBatch(t) ==
    /\ fkind = "writer"
    /\ ~Consumed(fclosed)
    /\ fpc[t] = "idle"
    /\ fop' = [fop EXCEPT ![t] = "write"]
    /\ fpc' = [fpc EXCEPT ![t] = "waiting"]
    /\ waitq' = Append(waitq, t)
    /\ UNCHANGED <<fkind, rgen, got, mutex, active, rstarted, rpos, fclosed>>
    /\ UNCHANGED <<wVars, sVars, bVars, rVars, mVars, pVars>>

\* lock().await returns the guard to the longest waiting task; the engine
\* operation of the task begins
Acquire(t) ==
    /\ fpc[t] = "waiting"
    /\ waitq # <<>>
    /\ Head(waitq) = t
    /\ LockFree(mutex)
    /\ mutex' = t
    /\ waitq' = Tail(waitq)
    /\ fpc' = [fpc EXCEPT ![t] = "running"]
    /\ active' = active + 1
    /\ UNCHANGED <<fkind, rgen, got, fop, rstarted, rpos, fclosed>>
    /\ UNCHANGED <<wVars, sVars, bVars, rVars, mVars, pVars>>

\* SyncSendableMutableLakeSoulWriter::flush_and_close: Arc::try_unwrap
\* refuses while another call holds a clone; otherwise the writer is taken
\* out of the Mutex and closed
FacadeFlushAndClose(t) ==
    /\ fkind = "writer"
    /\ ~Consumed(fclosed)
    /\ fpc[t] = "idle"
    /\ fclosed' = TRUE
    /\ IF \E u \in Tasks : Holding(u)
       THEN /\ fop' = [fop EXCEPT ![t] = "flush_refused"]
            /\ fpc' = [fpc EXCEPT ![t] = "done"]
            /\ UNCHANGED active
       ELSE /\ fop' = [fop EXCEPT ![t] = "flush"]
            /\ fpc' = [fpc EXCEPT ![t] = "running"]
            /\ active' = active + 1
    /\ UNCHANGED <<fkind, rgen, got, mutex, waitq, rstarted, rpos>>
    /\ UNCHANGED <<wVars, sVars, bVars, rVars, mVars, pVars>>

\* the guard of task t is dropped and its call or task ends
Release(t) ==
    /\ fpc' = [fpc EXCEPT ![t] = "done"]
    /\ active' = active - 1
    /\ mutex' = IF mutex = t THEN 0 ELSE mutex

\* the write_record_batch or flush_and_close of the writer's call t ends
OpFinish(t) ==
    /\ fpc[t] = "running"
    /\ fop[t] \in {"write", "flush"}
    /\ Release(t)
    /\ UNCHANGED <<fkind, rgen, got, waitq, fop, rstarted, rpos, fclosed>>
    /\ UNCHANGED <<wVars, sVars, bVars, rVars, mVars, pVars>>

\* LakeSoulReader::start ends: on success the stream is replaced by a new
\* one, on an error the stream is left as it was
StartFinish(t) ==
    /\ fpc[t] = "running"
    /\ fop[t] = "start"
    /\ Release(t)
    /\ \E ok \in BOOLEAN :
          /\ rstarted' = (rstarted \/ ok)
          /\ rgen' = IF ok THEN rgen + 1 ELSE rgen
          /\ rpos' = IF ok THEN 0 ELSE rpos
    /\ UNCHANGED <<fkind, got, waitq, fop, fclosed>>
    /\ UNCHANGED <<wVars, sVars, bVars, rVars, mVars, pVars>>

\* a next_rb that hands out the same batch again
NextRbStuck(gen, pos) ==
    IF pos < StreamLen
    THEN [res |-> <<"batch", gen, pos + 1>>, pos |-> pos]
    ELSE [res |-> <<"end", gen>>, pos |-> pos]

\* LakeSoulReader::next_rb on an initialized stream: the next batch of the
\* stream, None once the stream is exhausted
NextRb(gen, pos) ==
    IF pos < StreamLen
    THEN [res |-> <<"batch", gen, pos + 1>>, pos |-> pos + 1]
    ELSE [res |-> <<"end", gen>>, pos |-> pos]

\* the task of next_rb_callback on an initialized stream: f(next_rb().await),
\* then the guard is dropped
NextRbFinish(t) ==
    /\ fpc[t] = "running"
    /\ fop[t] = "next_rb"
    /\ rstarted
    /\ Release(t)
    /\ got' = [got EXCEPT ![t] = NextRb(rgen, rpos).res]
    /\ rpos' = NextRb(rgen, rpos).pos
    /\ UNCHANGED <<fkind, rgen, waitq, fop, rstarted, fclosed>>
    /\ UNCHANGED <<wVars, sVars, bVars, rVars, mVars, pVars>>

\* the task of next_rb_callback before any successful start: assume_init_mut
\* on the uninitialized stream is undefined behaviour; the callback is
\* invoked with an arbitrary value, or the task dies with the guard held
NextRbUninit(t) ==
    /\ fpc[t] = "running"
    /\ fop[t] = "next_rb"
    /\ ~rstarted
    /\ \/ /\ Release(t)
          /\ got' = [got EXCEPT ![t] = <<"undefined">>]
       \/ /\ fpc' = [fpc EXCEPT ![t] = "crashed"]
          /\ active' = active - 1
          /\ UNCHANGED <<mutex, got>>
    /\ UNCHANGED <<fkind, rgen, waitq, fop, rstarted, rpos, fclosed>>
    /\ UNCHANGED <<wVars, sVars, bVars, rVars, mVars, pVars>>

(***************************************************************************)
(* MergedArrayData: the column builders of one batch.                      *)
(*   null_buffer  the validity bitmap, one entry (0 or 1) per bit, eight   *)
(*                per byte                                                 *)
(*   buffer1      the value buffer, one entry per byte                     *)
(***************************************************************************)
Columns == 1..2

\* data types of the fields of a batch: two integer types and one that
\* push_non_null_item does not list
DataTypes == {"Int8", "Int16", "Float32"}

\* the types push_non_null_item lists
IntegerTypes ==
    {"UInt8", "UInt16", "UInt32", "UInt64", "Int8", "Int16", "Int32", "Int64"}

FloatTypes == {"Float16", "Float32", "Float64"}

\* types with an offsets buffer and a payload buffer of their own
BinaryTypes == {"Utf8", "Binary", "LargeUtf8", "LargeBinary"}

\* types with an offsets buffer whose values are child data
ListTypes == {"List", "Map", "LargeList"}

\* types without a buffer of their own
NoBufferTypes == {"Null", "Struct", "FixedSizeList"}

\* the data types of new_buffers and into_buffers told apart here
LayoutTypes ==
    {"Boolean"} \cup IntegerTypes \cup FloatTypes \cup {"Decimal128"}
        \cup BinaryTypes \cup ListTypes \cup NoBufferTypes
        \cup {"UnionSparse", "UnionDense"}

\* bytes of one value of a fixed-width type (f16: 2, i128: 16)
Width(dt) ==
    CASE dt \in {"UInt8", "Int8"} -> 1
      [] dt \in {"UInt16", "Int16", "Float16"} -> 2
      [] dt \in {"UInt32", "Int32", "Float32"} -> 4
      [] dt \in {"UInt64", "Int64", "Float64"} -> 8
      [] dt = "Decimal128" -> 16

\* the mem::size_of factor new_buffers multiplies the capacity with:
\* size_of::<f32>() for Float16 and size_of::<u8>() for the decimals
SizeOf(dt) ==
    CASE dt = "Float16" -> 4
      [] dt = "Decimal128" -> 1
      [] OTHER -> Width(dt)

\* bytes of one offset: i32, or i64 for the Large types
OffsetWidth(dt) ==
    IF dt \in {"LargeUtf8", "LargeBinary", "LargeList"} THEN 8 ELSE 4

Fields == [data_type : DataTypes, nullable : BOOLEAN]

\* items pushed by the callers: a value of a native type of w bytes, as its
\* little-endian bytes
Items == {<<1>>, <<1, 0>>}

Zeros(n) == [i \in 1..n |-> 0]

\* bit_util::ceil(n, 8)
Ceil8(n) == (n + 7) \div 8

\* the two buffers new_buffers returns: their bytes, and the bytes that
\* MutableBuffer::new / with_capacity was asked for
Buffers(bytes1, bytes2, size1, size2) ==
    [buffer1 |-> bytes1, buffer2 |-> bytes2,
     requested1 |-> size1, requested2 |-> size2]

\* a new_buffers that does not push the first offset
NewBuffersNoOffset(dt, capacity) ==
    CASE dt \in NoBufferTypes -> Buffers(<<>>, <<>>, 0, 0)
      [] dt = "Boolean" -> Buffers(<<>>, <<>>, Ceil8(capacity), 0)
      [] dt \in IntegerTypes \cup FloatTypes \cup {"Decimal128"} ->
            Buffers(<<>>, <<>>, capacity * SizeOf(dt), 0)
      [] dt \in BinaryTypes ->
            Buffers(<<>>, <<>>, (1 + capacity) * OffsetWidth(dt), capacity * 1)
      [] dt \in ListTypes ->
            Buffers(<<>>, <<>>, (1 + capacity) * OffsetWidth(dt), 0)
      [] dt = "UnionSparse" -> Buffers(<<>>, <<>>, capacity * 1, 0)
      [] dt = "UnionDense" -> Buffers(<<>>, <<>>, capacity * 1, capacity * 4)

\* new_buffers: the offsets buffers start with the offset 0, every other
\* buffer starts empty
NewBuffers(dt, capacity) ==
    CASE dt \in NoBufferTypes -> Buffers(<<>>, <<>>, 0, 0)
      [] dt = "Boolean" -> Buffers(<<>>, <<>>, Ceil8(capacity), 0)
      [] dt \in IntegerTypes \cup FloatTypes \cup {"Decimal128"} ->
            Buffers(<<>>, <<>>, capacity * SizeOf(dt), 0)
      [] dt \in BinaryTypes ->
            Buffers(Zeros(OffsetWidth(dt)), <<>>,
                    (1 + capacity) * OffsetWidth(dt), capacity * 1)
      [] dt \in ListTypes ->
            Buffers(Zeros(OffsetWidth(dt)), <<>>,
                    (1 + capacity) * OffsetWidth(dt), 0)
      [] dt = "UnionSparse" -> Buffers(<<>>, <<>>, capacity * 1, 0)
      [] dt = "UnionDense" -> Buffers(<<>>, <<>>, capacity * 1, capacity * 4)

\* MergedArrayData::with_capacities
WithCapacities(field, capacity) ==
    [data_type |-> field.data_type,
     nullable |-> field.nullable,
     null_count |-> 0,
     len |-> 0,
     null_buffer |-> IF field.nullable THEN Zeros(8 * Ceil8(capacity)) ELSE <<>>,
     buffer1 |-> NewBuffers(field.data_type, capacity).buffer1,
     buffer2 |-> NewBuffers(field.data_type, capacity).buffer2,
     requested1 |-> NewBuffers(field.data_type, capacity).requested1,
     requested2 |-> NewBuffers(field.data_type, capacity).requested2]

\* MutableBuffer::capacity of a null buffer that was never resized: its
\* bytes rounded up to a multiple of 64
NullBufferCapacity(b) == 64 * ((Len(b.null_buffer) \div 8 + 63) \div 64)

\* utils::get_default_value: the zero representation of the type, which
\* push_null appends to buffer1: a zero value of a fixed-width type, a zero
\* offset of a type whose buffer1 holds offsets, nothing otherwise
GetDefaultValue(dt) ==
    CASE dt \in IntegerTypes \cup FloatTypes \cup {"Decimal128"} -> Zeros(Width(dt))
      [] dt \in BinaryTypes \cup ListTypes -> Zeros(OffsetWidth(dt))
      [] OTHER -> <<>>

\* utils::resize_for_bits: grow the buffer with zero bytes to hold len bits
ResizeForBits(buf, len) ==
    IF Len(buf) < 8 * Ceil8(len) THEN buf \o Zeros(8 * Ceil8(len) - Len(buf))
    ELSE buf

\* bit_util::set_bit(data, i)
SetBit(buf, i) == [buf EXCEPT ![i + 1] = 1]

\* MergedArrayData::extend_non_null_bit
ExtendNonNullBit(b) ==
    [b EXCEPT !.null_buffer = SetBit(ResizeForBits(@, b.len + 1), b.len)]

Returned(b, res) == [b |-> b, res |-> res]

\* a push_null that does not count the null
PushNullNoCount(b) ==
    IF ~b.nullable /\ NullBufferCapacity(b) # 0 THEN Returned(b, "Panic")
    ELSE Returned([b EXCEPT !.len = @ + 1,
                            !.buffer1 = @ \o GetDefaultValue(b.data_type)],
                  "Ok")

\* a push_null that writes no default value for the null row
PushNullNoValue(b) ==
    IF ~b.nullable /\ NullBufferCapacity(b) # 0 THEN Returned(b, "Panic")
    ELSE Returned([b EXCEPT !.len = @ + 1, !.null_count = @ + 1], "Ok")

\* MergedArrayData::push_null
PushNull(b) ==
    IF ~b.nullable /\ NullBufferCapacity(b) # 0 THEN Returned(b, "Panic")
    ELSE Returned([b EXCEPT !.len = @ + 1,
                            !.null_count = @ + 1,
                            !.buffer1 = @ \o GetDefaultValue(b.data_type)],
                  "Ok")

\* MergedArrayData::push_non_null_item
PushNonNullItem(b, item) ==
    LET b1 == IF b.nullable THEN ExtendNonNullBit(b) ELSE b
    IN  IF b.data_type \in IntegerTypes
        THEN Returned([b1 EXCEPT !.buffer1 = @ \o item, !.len = @ + 1], "Ok")
        ELSE Returned(b1, "Panic")

\* an into_buffers that emits the primary buffer alone
IntoBuffersPrimary(dt, buffer1, buffer2) == <<buffer1>>

\* into_buffers
IntoBuffers(dt, buffer1, buffer2) ==
    CASE dt \in NoBufferTypes -> <<>>
      [] dt \in BinaryTypes -> <<buffer1, buffer2>>
      [] dt = "UnionSparse" -> <<buffer1>>
      [] dt = "UnionDense" -> <<buffer1, buffer2>>
      [] OTHER -> <<buffer1>>

NoArrayData ==
    [built |-> FALSE, data_type |-> "none", len |-> 0, null_count |-> 0,
     buffers |-> <<>>, null_bit_buffer |-> <<>>]

\* a freeze that attaches the null buffer whatever null_count is
FreezeAlwaysBitmap(b) ==
    [built |-> TRUE,
     data_type |-> b.data_type,
     len |-> b.len,
     null_count |-> b.null_count,
     buffers |-> IntoBuffers(b.data_type, b.buffer1, b.buffer2),
     null_bit_buffer |-> <<b.null_buffer>>]

\* MergedArrayData::freeze: the ArrayData of build_unchecked
Freeze(b) ==
    [built |-> TRUE,
     data_type |-> b.data_type,
     len |-> b.len,
     null_count |-> b.null_count,
     buffers |-> IntoBuffers(b.data_type, b.buffer1, b.buffer2),
     null_bit_buffer |-> IF b.null_count > 0 THEN <<b.null_buffer>> ELSE <<>>]

\* the builders of one batch are created with one capacity hint
MInit ==
    /\ \E capacity \in 0..MaxCapacity :
          /\ cols \in [Columns -> {WithCapacities(f, capacity) : f \in Fields}]
          /\ hint = [c \in Columns |-> capacity]
    /\ ops = [c \in Columns |-> <<>>]
    /\ mres = [c \in Columns |-> "none"]
    /\ mpc = [c \in Columns |-> "building"]
    /\ frozen = [c \in Columns |-> NoArrayData]
    /\ typed = [c \in Columns |-> TRUE]

\* a batch of one column whose builder is not constructed yet
MDeclared ==
    /\ cols = [c \in Columns |->
                  [data_type |-> "none", nullable |-> FALSE, null_count |-> 0,
                   len |-> 0, null_buffer |-> <<>>, buffer1 |-> <<>>,
                   buffer2 |-> <<>>, requested1 |-> 0, requested2 |-> 0]]
    /\ hint = [c \in Columns |-> 0]
    /\ ops = [c \in Columns |-> <<>>]
    /\ mres = [c \in Columns |-> "none"]
    /\ mpc = [c \in Columns |-> IF c = 1 THEN "declared" ELSE "absent"]
    /\ frozen = [c \in Columns |-> NoArrayData]
    /\ typed = [c \in Columns |-> TRUE]

\* MergedArrayData::new for the field of column c
NewCall(c) ==
    /\ mpc[c] = "declared"
    /\ \E field \in [data_type : LayoutTypes, nullable : BOOLEAN],
          capacity \in 0..MaxCapacity :
          /\ cols' = [cols EXCEPT ![c] = WithCapacities(field, capacity)]
          /\ hint' = [hint EXCEPT ![c] = capacity]
    /\ mpc' = [mpc EXCEPT ![c] = "building"]
    /\ UNCHANGED <<ops, mres, frozen, typed>>
    /\ UNCHANGED <<wVars, sVars, bVars, fVars, rVars, pVars>>

\* calls made on the builders of the batch so far
Pushes == Len(ops[1]) + Len(ops[2])

\* push_null is called on the builder of column c
PushNullCall(c) ==
    /\ mpc[c] = "building"
    /\ Pushes < MaxPushes
    /\ LET r == PushNull(cols[c])
       IN  /\ cols' = [cols EXCEPT ![c] = r.b]
           /\ mres' = [mres EXCEPT ![c] = r.res]
           /\ mpc' = [mpc EXCEPT ![c] = IF r.res = "Panic" THEN "panicked" ELSE @]
    /\ ops' = [ops EXCEPT ![c] = Append(@, "null")]
    /\ UNCHANGED <<frozen, hint, typed>>
    /\ UNCHANGED <<wVars, sVars, bVars, fVars, rVars, pVars>>

\* push_non_null_item is called on the builder of column c
PushItemCall(c) ==
    /\ mpc[c] = "building"
    /\ Pushes < MaxPushes
    /\ \E item \in Items :
          LET r == PushNonNullItem(cols[c], item)
          IN  /\ cols' = [cols EXCEPT ![c] = r.b]
              /\ mres' = [mres EXCEPT ![c] = r.res]
              /\ mpc' = [mpc EXCEPT ![c] = IF r.res = "Panic" THEN "panicked" ELSE @]
              /\ typed' = [typed EXCEPT ![c] =
                              @ /\ (r.res = "Ok" => Len(item) = Width(cols[c].data_type))]
    /\ ops' = [ops EXCEPT ![c] = Append(@, "item")]
    /\ UNCHANGED <<frozen, hint>>
    /\ UNCHANGED <<wVars, sVars, bVars, fVars, rVars, pVars>>

\* freeze consumes the builder of column c
FreezeCall(c) ==
    /\ mpc[c] = "building"
    /\ frozen' = [frozen EXCEPT ![c] = Freeze(cols[c])]
    /\ mpc' = [mpc EXCEPT ![c] = "frozen"]
    /\ UNCHANGED <<cols, ops, mres, hint, typed>>
    /\ UNCHANGED <<wVars, sVars, bVars, fVars, rVars, pVars>>

(***************************************************************************)
(* LakeSoulReader used directly: new, start, next_rb.                      *)
(* A file holds rows <<key, origin>> in ascending key order, one row per   *)
(* key; origin is the position of the file in config.files.                *)
(***************************************************************************)
\* primary-key values of the rows of the files
ReaderKeys == 1..4

RECURSIVE RowsOfKeys(_, _)
RowsOfKeys(keys, origin) ==
    IF keys = {} THEN <<>>
    ELSE LET k == CHOOSE x \in keys : \A y \in keys : x <= y
         IN  <<<<k, origin>>>> \o RowsOfKeys(keys \ {k}, origin)

\* config.files of n files holding the given key sets
FilesOf(keysets) == [i \in 1..Len(keysets) |-> RowsOfKeys(keysets[i], i)]

FileLists ==
    UNION {{FilesOf(ks) : ks \in [1..n -> SUBSET ReaderKeys]} : n \in 0..MaxFiles}

\* the object_store_options that matter to register_s3_object_store: the
\* keys that are present (fs.s3.enabled, when present, is "true")
S3Options == SUBSET {"fs.s3.enabled", "fs.s3.region", "fs.s3.bucket"}

RConfigs == [files : FileLists, object_store_options : S3Options]

\* LakeSoulReader::check_fs_type_enabled(config, "s3")
CheckFsTypeEnabled(c) == "fs.s3.enabled" \in c.object_store_options

\* LakeSoulReader::register_s3_object_store; s3Ok is the result of
\* aws::new_s3
RegisterS3ObjectStore(c, s3Ok) ==
    IF ~CheckFsTypeEnabled(c) THEN "Ok"
    ELSE IF "fs.s3.region" \notin c.object_store_options THEN "ConfigurationError"
    ELSE IF "fs.s3.bucket" \notin c.object_store_options THEN "ConfigurationError"
    ELSE IF ~s3Ok THEN "StorageIOError"
    ELSE "Ok"

\* LakeSoulReader::start: read_parquet(config.files[0]); indexing an empty
\* file list panics; readOk is the result of the query engine's calls
StartResult(c, readOk) ==
    IF c.files = <<>> THEN "Panic"
    ELSE IF ~readOk THEN "ExecutionError"
    ELSE "Ok"

\* the rows of the stream start creates: those of config.files[0]
StartStream(c) == c.files[1]

RInit ==
    /\ rconfig \in RConfigs
    /\ rstate = "unbuilt"
    /\ rnew = "none"
    /\ rstart = "none"
    /\ stream = <<>>
    /\ rout = <<>>
    /\ rend = FALSE
    /\ rcalls = 0

\* LakeSoulReader::new: create_session_context, then the reader with an
\* uninitialized stream
ReaderNew ==
    /\ rstate = "unbuilt"
    /\ \E s3Ok \in BOOLEAN :
          LET r == RegisterS3ObjectStore(rconfig, s3Ok)
          IN  /\ rnew' = r
              /\ rstate' = IF r = "Ok" THEN "ready" ELSE "failed"
    /\ UNCHANGED <<rconfig, rstart, stream, rout, rend, rcalls>>
    /\ UNCHANGED <<wVars, sVars, bVars, fVars, mVars, pVars>>

\* LakeSoulReader::start
ReaderStart ==
    /\ rstate \in {"ready", "started"}
    /\ rcalls < MaxReaderCalls
    /\ rcalls' = rcalls + 1
    /\ \E readOk \in BOOLEAN :
          LET r == StartResult(rconfig, readOk)
          IN  /\ rstart' = r
              /\ rstate' = CASE r = "Ok" -> "started"
                             [] r = "Panic" -> "panicked"
                             [] OTHER -> rstate
              /\ IF r = "Ok"
                 THEN /\ stream' = <<StartStream(rconfig)>>
                      /\ rout' = <<>>
                      /\ rend' = FALSE
                 ELSE UNCHANGED <<stream, rout, rend>>
    /\ UNCHANGED <<rconfig, rnew>>
    /\ UNCHANGED <<wVars, sVars, bVars, fVars, mVars, pVars>>

\* LakeSoulReader::next_rb on an initialized stream: the next batch, or
\* None once the stream is exhausted
ReaderNextRb ==
    /\ rstate = "started"
    /\ stream # <<>>
    /\ rcalls < MaxReaderCalls
    /\ rcalls' = rcalls + 1
    /\ IF stream[1] = <<>>
       THEN /\ rend' = TRUE
            /\ UNCHANGED <<stream, rout>>
       ELSE /\ rout' = rout \o Take(stream[1], ReadBatchRows)
            /\ stream' = <<Drop(stream[1], ReadBatchRows)>>
            /\ UNCHANGED rend
    /\ UNCHANGED <<rconfig, rstate, rnew, rstart>>
    /\ UNCHANGED <<wVars, sVars, bVars, fVars, mVars, pVars>>

\* LakeSoulReader::next_rb before any successful start: assume_init_mut on
\* the uninitialized stream is undefined behaviour; the call returns None,
\* returns an arbitrary batch, or the process dies
ReaderNextRbUninit ==
    /\ rstate = "ready"
    /\ stream = <<>>
    /\ rcalls < MaxReaderCalls
    /\ rcalls' = rcalls + 1
    /\ \/ rend' = TRUE /\ UNCHANGED <<rout, rstate>>
       \/ rout' = Append(rout, <<0, 0>>) /\ UNCHANGED <<rend, rstate>>
       \/ rstate' = "crashed" /\ UNCHANGED <<rout, rend>>
    /\ UNCHANGED <<rconfig, rnew, rstart, stream>>
    /\ UNCHANGED <<wVars, sVars, bVars, fVars, mVars, pVars>>

(***************************************************************************)
(* The filter parser.  A string is the sequence of its characters; the     *)
(* strings are ASCII, so that a character index is a byte offset, and far  *)
(* shorter than the 127 nested parentheses the i8 counter k can hold.      *)
(***************************************************************************)
Eq == <<"e", "q">>
NotEq == <<"n", "o", "t", "e", "q">>
Not == <<"n", "o", "t">>
And == <<"a", "n", "d">>
Null == <<"n", "u", "l", "l">>

\* the op strings of the match in parse that compare a column with a literal
ComparisonOps ==
    {Eq, NotEq, <<"g", "t">>, <<"g", "t", "e", "q">>, <<"l", "t">>,
     <<"l", "t", "e", "q">>}

\* column names; the schema map has no entry for the last
ColumnNames == {<<"c">>, <<"a", ".", "b">>, <<"d">>}

\* schema: &HashMap<String, String>, column name to type name
Schema == (<<"c">> :> "float") @@ (<<"a", ".", "b">> :> "string")

\* the pieces the filter strings are put together from: text before the
\* first parenthesis, a left operand, a separator, a right operand, an end
OpTexts == {Eq, NotEq, Not, And, <<"l", "t">>, <<"i", "n">>, <<")">> \o Eq}

Lefts ==
    ColumnNames \cup
        {<<"c", ")", ")", "(", "(", "d">>, <<"c", "(">>, <<"c", ")">>}

Rights == {Null, <<"1">>, <<"2", ".", "9">>, <<"x", "y">>, <<"1", ")">>, <<"(", "1">>}

Call(op, left, sep, right, end) == op \o <<"(">> \o left \o sep \o right \o end

\* one call: the operands separated by ", " or ",", the closing parenthesis
\* there, missing or doubled
SimpleFilters ==
    {Call(op, l, sep, r, e) :
        op \in OpTexts, l \in Lefts, sep \in {<<",", " ">>, <<",">>},
        r \in Rights, e \in {<<")">>, <<>>, <<")", ")">>}}

\* operands of the nested filters
InnerFilters ==
    {Call(Eq, <<"c">>, <<",", " ">>, Null, <<")">>),
     Call(NotEq, <<"d">>, <<",", " ">>, Null, <<")">>),
     Call(<<"l", "t">>, <<"c">>, <<",", " ">>, <<"1">>, <<")">>),
     Call(Eq, <<"a", ".", "b">>, <<",", " ">>, <<"x", "y">>, <<>>)}

\* the filter strings passed to parse: the simple ones, and not, and, or
\* over the inner ones
FilterStrs ==
    SimpleFilters
        \cup {Call(Not, <<>>, <<>>, f, <<")">>) : f \in InnerFilters}
        \cup {Call(op, f, <<",", " ">>, g, <<")">>) :
                 op \in {And, <<"o", "r">>}, f \in InnerFilters, g \in InnerFilters}

\* the Exprs of parse
Panic == [kind |-> "Panic"]
Wildcard == [kind |-> "Wildcard"]
IsNull(column) == [kind |-> "IsNull", column |-> column]
IsNotNull(column) == [kind |-> "IsNotNull", column |-> column]
BinaryExpr(left, op, right) ==
    [kind |-> "BinaryExpr", left |-> left, op |-> op, right |-> right]

\* str::find(ch): the first position of ch in s, 0 for None
Find(s, ch) ==
    IF \E i \in 1..Len(s) : s[i] = ch
    THEN CHOOSE i \in 1..Len(s) : s[i] = ch /\ \A j \in 1..(i - 1) : s[j] # ch
    ELSE 0

\* k after the loop of parse_filter_str has read the first n characters
Depth(s, n) ==
    Cardinality({i \in 1..n : s[i] = "("}) - Cardinality({i \in 1..n : s[i] = ")"})

\* left_offset after the loop: the index, from 0, of the last comma read
\* with k = 0, and 0 when there is none
LeftOffset(s) ==
    LET commas == {i \in 1..Len(s) : s[i] = "," /\ Depth(s, i - 1) = 0}
    IN  IF commas = {} THEN 0
        ELSE (CHOOSE i \in commas : \A j \in commas : j <= i) - 1

Split(op, left, right) == [panic |-> FALSE, op |-> op, left |-> left, right |-> right]

NoSplit == [panic |-> TRUE, op |-> <<>>, left |-> <<>>, right |-> <<>>]

\* Parser::parse_filter_str
ParseFilterStr(filter) ==
    LET op_offset == Find(filter, "(") - 1
        op == SubSeq(filter, 1, op_offset)
        rest == SubSeq(filter, op_offset + 1, Len(filter))
        body == SubSeq(rest, 2, Len(rest) - 1)
        left == SubSeq(body, 1, LeftOffset(body))
        right == SubSeq(body, LeftOffset(body) + 1, Len(body))
    IN  IF Find(filter, "(") = 0 THEN NoSplit
        ELSE IF rest[Len(rest)] # ")" THEN NoSplit
        ELSE IF Depth(body, Len(body)) # 0 THEN NoSplit
        ELSE IF op = Not THEN Split(op, left, right)
        ELSE IF Len(right) < 2 THEN NoSplit
        ELSE Split(op, left, SubSeq(right, 3, Len(right)))

\* str::parse::<f32>() is Ok: digits with at most one point
ParsesAsF32(value) ==
    /\ \E i \in 1..Len(value) : value[i] \in {"1", "2", "9"}
    /\ \A i \in 1..Len(value) : value[i] \in {"1", "2", "9", "."}
    /\ Cardinality({i \in 1..Len(value) : value[i] = "."}) <= 1

\* Parser::parse_literal
ParseLiteral(column, value) ==
    IF column \notin DOMAIN Schema THEN Panic
    ELSE IF Schema[column] = "float"
         THEN IF ParsesAsF32(value)
              THEN [kind |-> "Literal", type |-> "Float32", value |-> value]
              ELSE Panic
         ELSE [kind |-> "Literal", type |-> "Utf8", value |-> value]

\* a test of the right operand that never finds the null literal
IsNullLiteralNever(right) == FALSE

\* right == "null"
IsNullLiteral(right) == right = Null

\* an Expr built of two operands, or the panic of the first that panicked
Binary(left, op, right) ==
    IF left.kind = "Panic" \/ right.kind = "Panic" THEN Panic
    ELSE BinaryExpr(left, op, right)

\* Parser::parse
RECURSIVE Parse(_)
Parse(filter) ==
    LET t == ParseFilterStr(filter)
    IN  IF t.panic THEN Panic
        ELSE IF IsNullLiteral(t.right)
        THEN CASE t.op = Eq -> IsNull(t.left)
               [] t.op = NotEq -> IsNotNull(t.left)
               [] OTHER -> Wildcard
        ELSE CASE t.op = Not ->
                    LET inner == Parse(t.right)
                    IN  IF inner.kind = "Panic" THEN Panic
                        ELSE [kind |-> "Not", inner |-> inner]
               [] t.op \in ComparisonOps ->
                    Binary([kind |-> "Column", column |-> t.left], t.op,
                           ParseLiteral(t.left, t.right))
               [] t.op \in {<<"o", "r">>, And} ->
                    LET left_expr == Parse(t.left)
                    IN  IF left_expr.kind = "Panic" THEN Panic
                        ELSE Binary(left_expr, t.op, Parse(t.right))
               [] OTHER -> Wildcard

PInit ==
    /\ filter_str \in FilterStrs
    /\ pexpr = [kind |-> "none"]
    /\ ppc = "idle"

\* Parser::parse is called with the filter string
ParseCall ==
    /\ ppc = "idle"
    /\ pexpr' = Parse(filter_str)
    /\ ppc' = "done"
    /\ UNCHANGED filter_str
    /\ UNCHANGED <<wVars, sVars, bVars, fVars, rVars, mVars>>

\* the specifications of the other components leave the facade's kind, the
\* configurations and the fields of the builders fixed
FIdle == FInit /\ fkind = "reader"

WIdle ==
    /\ WInit
    /\ config = [nfiles |-> 1, confOk |-> TRUE, schemaOk |-> TRUE,
                 primary_keys |-> <<>>]

RIdle ==
    /\ RInit
    /\ rconfig = [files |-> <<>>, object_store_options |-> {}]

MIdle ==
    /\ MInit
    /\ cols = [c \in Columns |->
                  WithCapacities([data_type |-> "Int8", nullable |-> FALSE], 0)]
    /\ hint = [c \in Columns |-> 0]

PIdle == PInit /\ filter_str = Call(Eq, <<"c">>, <<",", " ">>, Null, <<")">>)

(***************************************************************************)
(* The writer pipeline: one writer from construction to close or drop.     *)
(***************************************************************************)
Init == WInit /\ SInit /\ BInit /\ FIdle /\ RIdle /\ MIdle /\ PIdle

Next ==
    \/ TryNew
    \/ PlainWrite
    \/ PlainFlushAndClose
    \/ DropWriter
    \/ SortWrite
    \/ SortWriteResume
    \/ SortFlushBegin
    \/ SortFlushReturn
    \/ SortPull
    \/ SortFinish
    \/ SortFail
    \/ TaskWrite
    \/ TaskClose

Spec == Init /\ [][Next]_vars

\* the scheduling of the runtime: the spawned task runs while it can make a
\* step, every sort, write and close of it completing or failing, and a
\* caller that awaits a send or the JoinHandle is woken
SortFairness ==
    /\ WF_vars(SortPull)
    /\ WF_vars(SortFinish)
    /\ WF_vars(TaskWrite)
    /\ WF_vars(TaskClose)
    /\ WF_vars(SortWriteResume)
    /\ WF_vars(SortFlushReturn)

SpecFair == Init /\ [][Next]_vars /\ SortFairness

(***************************************************************************)
(* The shared buffer used through two clones.                              *)
(***************************************************************************)
BufNext ==
    \E h \in Holders :
        \/ BufWrite(h)
        \/ DrainBegin(h)
        \/ DrainStep(h)
        \/ DrainEnd(h)

BufInit == WIdle /\ SInit /\ BInit /\ FIdle /\ RIdle /\ MIdle /\ PIdle

SpecBuf == BufInit /\ [][BufNext]_vars

(***************************************************************************)
(* One facade with its tasks and blocking callers.                         *)
(***************************************************************************)
FacadeNext ==
    \E t \in Tasks :
        \/ StartBlocked(t)
        \/ NextRbCallback(t)
        \/ TaskPoll(t)
        \/ FacadeWriteBatch(t)
        \/ Acquire(t)
        \/ FacadeFlushAndClose(t)
        \/ OpFinish(t)
        \/ StartFinish(t)
        \/ NextRbFinish(t)
        \/ NextRbUninit(t)

FacadeInit == WIdle /\ SInit /\ BInit /\ FInit /\ RIdle /\ MIdle /\ PIdle

SpecFacade == FacadeInit /\ [][FacadeNext]_vars

\* the scheduling of the runtime: a spawned task is polled, the Mutex hands
\* the guard to the longest waiting task, and an operation that runs ends
FacadeFairness ==
    \A t \in Tasks :
        /\ WF_vars(TaskPoll(t))
        /\ WF_vars(Acquire(t))
        /\ WF_vars(OpFinish(t))
        /\ WF_vars(StartFinish(t))
        /\ WF_vars(NextRbFinish(t))
        /\ WF_vars(NextRbUninit(t))

SpecFacadeFair == FacadeInit /\ [][FacadeNext]_vars /\ FacadeFairness

(***************************************************************************)
(* One LakeSoulReader from construction on.                                *)
(***************************************************************************)
ReaderNext ==
    \/ ReaderNew
    \/ ReaderStart
    \/ ReaderNextRb
    \/ ReaderNextRbUninit

ReaderInit == WIdle /\ SInit /\ BInit /\ FIdle /\ RInit /\ MIdle /\ PIdle

SpecReader == ReaderInit /\ [][ReaderNext]_vars

(***************************************************************************)
(* The column builders of one batch.                                       *)
(***************************************************************************)
BuilderNext ==
    \E c \in Columns :
        \/ PushNullCall(c)
        \/ PushItemCall(c)
        \/ FreezeCall(c)

BuilderInit == WIdle /\ SInit /\ BInit /\ FIdle /\ RIdle /\ MInit /\ PIdle

SpecBuilder == BuilderInit /\ [][BuilderNext]_vars

(***************************************************************************)
(* One column builder of any data type, from construction to freeze.       *)
(***************************************************************************)
ColumnNext ==
    \E c \in Columns :
        \/ NewCall(c)
        \/ PushNullCall(c)
        \/ PushItemCall(c)
        \/ FreezeCall(c)

ColumnInit == WIdle /\ SInit /\ BInit /\ FIdle /\ RIdle /\ MDeclared /\ PIdle

SpecColumn == ColumnInit /\ [][ColumnNext]_vars

(***************************************************************************)
(* One call of the filter parser.                                          *)
(***************************************************************************)
ParserNext == ParseCall

ParserInit == WIdle /\ SInit /\ BInit /\ FIdle /\ RIdle /\ MIdle /\ PInit

SpecParser == ParserInit /\ [][ParserNext]_vars

(***************************************************************************)
(* Properties.  C3 is stated for SpecBuf; C4, C19 and C37 for SpecFacade;  *)
(* C18 for SpecFacadeFair; C11, C15 and C35 for SpecReader; C12, C13, C20, *)
(* C23, C28 and C36 for SpecBuilder; C21, C22, C24, C29 and C30 for        *)
(* SpecColumn; C25, C26 and C31 for SpecParser; C32 for SpecFair; the      *)
(* others for Spec.                                                        *)
(***************************************************************************)
\* rows handed to the inner MultiPartAsyncWriter, in order
InnerRows == DecodeRows(mpw.produced) \o mpw.rowgroup

\* rows of the bytes the network writer has accepted, in order
FileRows == DecodeRows(mpw.forwarded)

\* a write_record_batch call of the sorting writer returns in this step
WriteReturns ==
    /\ kind = "sort"
    /\ \/ writes' = writes + 1 /\ pending' = <<>>
       \/ pending # <<>> /\ pending' = <<>>

\* C1: whatever batches are submitted to a SortAsyncWriter, the rows handed
\* to the inner writer, and so the rows of the file, are in ascending order
\* of the primary-key tuple (columns compared in primary_keys order) over
\* the whole output.
C1_SortedOutput ==
    kind = "sort" =>
        /\ IsSorted(InnerRows, config.primary_keys)
        /\ IsSorted(FileRows, config.primary_keys)

\* C1 witness: two or more batches whose rows arrived out of key order were
\* sorted, written and committed.
C1_Witness ==
    /\ kind = "sort"
    /\ mpw.committed
    /\ Len(accepted) >= 2
    /\ ~IsSorted(Flatten(accepted), config.primary_keys)
    /\ Len(FileRows) = Len(Flatten(accepted))

\* C2 as stated: the queue never holds more than 2 batches, a call made
\* while it is full returns only once a slot is free, a call returns Ok only
\* with its batch in the queue, and no accepted batch leaves the queue
\* without being received by the sort stage.
C2_Original ==
    /\ [](Len(queue) <= 2)
    /\ [](lost = <<>>)
    /\ [][(kind = "sort" /\ writes' = writes + 1 /\ Len(queue) = 2)
              => pending' # <<>>]_vars
    /\ [][WriteReturns => Len(queue) < 2]_vars
    /\ [][(WriteReturns /\ lastWrite' = "Ok")
              => (Len(queue') = Len(queue) + 1 /\ pending' = <<>>)]_vars

\* C2 amended: the queue never holds more than 2 batches; a call made while
\* the queue is full waits, and returns Ok only from a state with a free
\* slot, its batch then being the last of the queue; it returns an error
\* only when the Receiver is gone; every accepted batch is received by the
\* sort stage or still queued, unless the sort stage failed, which discards
\* the queued batches.
C2_Backpressure ==
    /\ [](Len(queue) <= 2)
    /\ [](Flatten(accepted) = sortIn \o Flatten(lost) \o Flatten(queue))
    /\ [](lost # <<>> => taskFailure = "sort")
    /\ [][(kind = "sort" /\ writes' = writes + 1 /\ Len(queue) = 2 /\ receiverOpen)
              => (pending' # <<>> /\ queue' = queue)]_vars
    /\ [][(WriteReturns /\ lastWrite' = "Ok")
              => /\ Len(queue) < 2
                 /\ Len(queue') = Len(queue) + 1
                 /\ accepted' = Append(accepted, queue'[Len(queue')])]_vars
    /\ [][(WriteReturns /\ lastWrite' # "Ok")
              => (~receiverOpen /\ queue' = queue)]_vars

\* C2 witness: a write_record_batch is waiting on a full queue.
C2_Witness ==
    /\ pending # <<>>
    /\ Len(queue) = 2
    /\ receiverOpen

\* C3: when an attempt to borrow the shared buffer mutably is made while
\* another borrow is held, the holder keeps its borrow and the attempt
\* fails at once with the busy error of its call site (io ResourceBusy from
\* InMemBuf::write, the borrow error wrapped as Internal from write_batch),
\* leaving the buffer unchanged; an attempt made while no borrow is held
\* succeeds; every byte of a successful write is in the buffer or was
\* moved out of it, in order.
C3_TryBorrow ==
    /\ [](written = taken \o cell)
    /\ [][\A h \in Holders :
            hcalls'[h] = hcalls[h] + 1 =>
                IF borrowed # 0
                THEN /\ hres'[h] \in {"ResourceBusy", "Internal"}
                     /\ hpc'[h] = "idle"
                     /\ cell' = cell
                     /\ written' = written
                     /\ borrowed' = borrowed
                     /\ hpc'[borrowed] = "draining"
                ELSE hres'[h] \in {"Ok", "none"}]_vars

\* C3 witness: a write was refused with ResourceBusy while the other holder
\* keeps its borrow over a buffer that still holds bytes.
C3_Witness ==
    \E h, g \in Holders :
        /\ h # g
        /\ borrowed = g
        /\ hpc[g] = "draining"
        /\ hres[h] = "ResourceBusy"
        /\ cell # <<>>

\* C4: on one facade at most one engine operation executes at a time,
\* however many callbacks and blocking calls are scheduled; an operation
\* begins only when none is executing and the guard is free.
C4_OneOperation ==
    /\ [](active <= 1)
    /\ [](active = Cardinality({t \in Tasks : fpc[t] = "running"}))
    /\ [][active' = active + 1 => (active = 0 /\ mutex = 0)]_vars

\* C4 witness: one operation executes while two other tasks wait for the
\* guard.
C4_Witness ==
    /\ active = 1
    /\ Len(waitq) >= 2
    /\ mutex # 0

\* C5: MultiPartAsyncWriter::flush_and_close closes the encoder, drains the
\* buffer, then shuts the network writer down: at a commit every byte the
\* encoder produced (the footer last) has been forwarded and the buffer is
\* empty, and a failure of the close or of the drain leaves the upload
\* uncommitted.
C5_CloseOrder ==
    /\ mpw.committed =>
          /\ flushStage = "shutdown"
          /\ mpw.rowgroup = <<>>
          /\ mpw.in_mem_buf = <<>>
          /\ mpw.forwarded = mpw.produced
          /\ mpw.produced[Len(mpw.produced)] = FooterByte
    /\ flushStage \in {"close", "drain"} => ~mpw.committed

\* C5 witness: a plain writer with rows was closed and committed.
C5_Witness ==
    /\ kind = "plain"
    /\ mpw.committed
    /\ flushResult = "Ok"
    /\ Len(FileRows) >= 2

\* C6: SortAsyncWriter::flush_and_close returns after the queue is closed
\* and the task has ended, with the task's result: Ok only if every sorted
\* row was written to the inner writer and the inner writer committed, an
\* error whenever the sort, an inner write or the inner close failed.
C6_SortCloseResult ==
    (kind = "sort" /\ flushResult # "none") =>
        /\ ~senderOpen
        /\ tpc = "done"
        /\ flushResult = taskResult
        /\ flushResult = "Ok" =>
              /\ mpw.committed
              /\ sortedOut = <<>>
              /\ Len(FileRows) = Len(Flatten(accepted))
        /\ taskFailure # "none" => flushResult # "Ok"

\* C6 witness: a sorting writer was closed after an inner write had failed.
C6_Witness ==
    /\ kind = "sort"
    /\ flushResult # "none"
    /\ taskFailure = "write"

\* C7 as stated: once a write_record_batch of the plain writer has failed,
\* flush_and_close returns that error and does not commit the upload.
C7_Poisoned ==
    (kind = "plain" /\ firstWriteErr # "none" /\ flushResult # "none") =>
        /\ flushResult = firstWriteErr
        /\ ~mpw.committed

\* C8 as stated: no write_record_batch of the sorting writer returns an
\* error because the background task failed.
C8_Original ==
    kind = "sort" => lastWrite \in {"none", "Ok"}

\* C8 amended: the background task's error is returned by flush_and_close
\* only; an inner write or inner close failure makes no write_record_batch
\* fail; after a failure of the sort stage, which drops the Receiver,
\* write_record_batch returns a send error.
C8_BackgroundFailure ==
    kind = "sort" =>
        /\ lastWrite \in {"none", "Ok", "SendError"}
        /\ firstWriteErr \in {"none", "SendError"}
        /\ lastWrite = "SendError" => (taskFailure = "sort" /\ ~receiverOpen)
        /\ taskFailure \in {"write", "close"} => firstWriteErr = "none"
        /\ (flushResult # "none" /\ taskFailure # "none") =>
              flushResult = taskResult

\* C8 witness: every write returned Ok, the task failed, and flush_and_close
\* returned the failure.
C8_Witness ==
    /\ kind = "sort"
    /\ taskFailure \in {"write", "close"}
    /\ writes >= 1
    /\ lastWrite = "Ok"
    /\ flushResult \notin {"none", "Ok"}

\* C9 as stated: without a call of flush_and_close the upload is never
\* committed, for both writers.
C9_NoCommitWithoutClose ==
    ~flushCalled => ~mpw.committed

\* C10 as stated: when try_new returns a configuration or schema error, no
\* multi-part upload has been requested.
C10_ErrorBeforeIO ==
    newResult \in {"ConfigurationError", "SchemaError"} => ~uploadRequested

\* C11 as stated: writer construction with a file count other than 1,
\* reader construction with S3 enabled and no region or no bucket, and
\* reader start with an empty file list each return a configuration error.
C11_ConfigurationErrors ==
    /\ \A c \in Configs, putOk \in BOOLEAN :
          c.nfiles # 1 => TryNewResult(c, putOk).res = "ConfigurationError"
    /\ (/\ rnew # "none"
        /\ CheckFsTypeEnabled(rconfig)
        /\ ~({"fs.s3.region", "fs.s3.bucket"} \subseteq rconfig.object_store_options))
          => rnew = "ConfigurationError"
    /\ (rstart # "none" /\ rconfig.files = <<>>) => rstart = "ConfigurationError"

IsNullOp(op) == op = "null"

IsItemOp(op) == op = "item"

\* C12 as stated: on a builder of a non-nullable field every push_null
\* fails with an invariant-violation error and leaves len, null_count and
\* the buffers as they were, so only the push_non_null_item calls count.
C12_PushNullRejected ==
    \A c \in Columns :
        ~cols[c].nullable =>
            /\ cols[c].null_count = 0
            /\ cols[c].len = Len(SelectSeq(ops[c], IsItemOp))
            /\ (ops[c] # <<>> /\ ops[c][Len(ops[c])] = "null")
                  => mres[c] = "InvariantViolation"

\* C13: for every sequence of push_non_null_item and push_null calls on a
\* builder, also one longer than the capacity hint, len is the number of
\* calls and null_count the number of push_null calls, on the builder and on
\* the column freeze returns.
C13_FreezeCounts ==
    \A c \in Columns :
        /\ mpc[c] = "building" =>
              /\ cols[c].len = Len(ops[c])
              /\ cols[c].null_count = Len(SelectSeq(ops[c], IsNullOp))
        /\ frozen[c].built =>
              /\ frozen[c].len = Len(ops[c])
              /\ frozen[c].null_count = Len(SelectSeq(ops[c], IsNullOp))

\* C13 witness: a nullable builder received more calls than any capacity
\* hint, nulls and values among them, and was frozen.
C13_Witness ==
    \E c \in Columns :
        /\ frozen[c].built
        /\ cols[c].nullable
        /\ Len(ops[c]) > MaxCapacity
        /\ SelectSeq(ops[c], IsNullOp) # <<>>
        /\ SelectSeq(ops[c], IsItemOp) # <<>>

KeysOfFile(f) == {f[j][1] : j \in 1..Len(f)}

\* the most recent file (the last of the list) that holds key k
NewestWith(files, k) ==
    CHOOSE i \in 1..Len(files) :
        /\ k \in KeysOfFile(files[i])
        /\ \A j \in (i + 1)..Len(files) : k \notin KeysOfFile(files[j])

\* the merge the claim describes: one row per key, in ascending key order,
\* each the row of the most recent file that holds the key
RECURSIVE MergedFrom(_, _)
MergedFrom(keys, files) ==
    IF keys = {} THEN <<>>
    ELSE LET k == CHOOSE x \in keys : \A y \in keys : x <= y
         IN  <<<<k, NewestWith(files, k)>>>> \o MergedFrom(keys \ {k}, files)

\* C15 as stated: a reader given several sorted files returns, by the time
\* its stream is exhausted, one row per distinct key in ascending key order,
\* the row of a key held by several files being that of the most recent one.
C15_MergedRead ==
    (rstate = "started" /\ rend) =>
        rout = MergedFrom(UNION {KeysOfFile(rconfig.files[i]) :
                                    i \in 1..Len(rconfig.files)},
                          rconfig.files)

\* C16: the facade wraps the sorting writer exactly when primary_keys is
\* not empty and the plain writer otherwise, and the writer chosen at
\* construction is the writer for the rest of the lifetime.
C16_WriterChoice ==
    /\ [](kind # "none" => (kind = "sort" <=> config.primary_keys # <<>>))
    /\ [](kind # "none" => (kind = "plain" <=> config.primary_keys = <<>>))
    /\ [][kind # "none" => (kind' = kind /\ config' = config)]_vars

\* C16 witness: a writer built for a table with primary keys accepted
\* batches as the sorting writer and was closed.
C16_Witness ==
    /\ kind = "sort"
    /\ config.primary_keys # <<>>
    /\ writes >= 2
    /\ wstate = "closed"

\* C17: for the plain writer the bytes the encoder produced are, in order,
\* the bytes forwarded to the network writer followed by those still in the
\* buffer (none forwarded twice, skipped or reordered); the encoder received
\* the rows in the order of submission; and after a successful
\* flush_and_close every produced byte has been forwarded.
C17_BytesInOrder ==
    kind = "plain" =>
        /\ mpw.produced = mpw.forwarded \o mpw.in_mem_buf
        /\ firstWriteErr = "none" =>
              DecodeRows(mpw.produced) \o mpw.rowgroup = submitted
        /\ flushResult = "Ok" =>
              (mpw.forwarded = mpw.produced /\ mpw.in_mem_buf = <<>>)

\* C17 witness: two successful writes were forwarded in more than one part
\* and the writer was closed.
C17_Witness ==
    /\ kind = "plain"
    /\ firstWriteErr = "none"
    /\ writes >= 2
    /\ flushResult = "Ok"
    /\ Len(mpw.forwarded) >= 4

\* C18: with several next_rb_callback tasks scheduled on a started reader,
\* each callback is invoked at most once and eventually once, with the
\* result of its own next_rb; no batch of the stream is handed to two
\* callbacks and none is skipped: the batches taken from the stream so far
\* are exactly those the callbacks received.
C18_CallbacksQueue ==
    /\ [][\A t \in Tasks : got[t] # <<>> => got'[t] = got[t]]_vars
    /\ [](\A t, u \in Tasks :
             (t # u /\ got[t] # <<>> /\ got[t][1] = "batch") => got[t] # got[u])
    /\ [](rstarted =>
             \A i \in 1..rpos : \E t \in Tasks : got[t] = <<"batch", rgen, i>>)
    /\ [](\A t \in Tasks :
             (got[t] # <<>> /\ got[t][1] = "batch") =>
                 (fop[t] = "next_rb" /\ fpc[t] = "done"))
    /\ \A t \in Tasks :
          (rstarted /\ fop[t] = "next_rb" /\ fpc[t] \in {"spawned", "waiting"})
              ~> (fpc[t] = "done" /\ got[t] # <<>>)

\* C18 witness: on a started reader one callback has received the first
\* batch and another, scheduled meanwhile, holds the guard.
C18_Witness ==
    /\ rstarted
    /\ \E t, u \in Tasks :
          /\ t # u
          /\ fop[t] = "next_rb" /\ fop[u] = "next_rb"
          /\ got[t] = <<"batch", rgen, 1>>
          /\ fpc[u] = "running"
          /\ rpos = 1

\* C19: flush_and_close of a writer facade is called at most once and the
\* inner writer's flush_and_close runs at most once; after the call no
\* write_batch and no flush_and_close call begins; and once the inner
\* flush_and_close runs no write_record_batch runs or waits.
C19_CloseOnce ==
    /\ [](Cardinality({t \in Tasks : fop[t] \in {"flush", "flush_refused"}}) <= 1)
    /\ [][fclosed => (fop' = fop /\ fclosed')]_vars
    /\ [](\A t, u \in Tasks :
             (fop[t] = "flush" /\ fop[u] = "write") => fpc[u] = "done")

\* C19 witness: after two write_batch calls the facade was consumed and the
\* inner flush_and_close ran to its end.
C19_Witness ==
    /\ fclosed
    /\ \E t, u, v \in Tasks :
          /\ u # v
          /\ fop[t] = "flush" /\ fpc[t] = "done"
          /\ fop[u] = "write" /\ fop[v] = "write"

\* C20 as stated: the columns frozen from the builders of one batch never
\* differ in len (a batch whose builders differ fails to freeze).
C20_FreezeLengthCheck ==
    \A c, d \in Columns :
        (frozen[c].built /\ frozen[d].built) => frozen[c].len = frozen[d].len

\* the builder of column c exists (constructed and not consumed by a panic)
Built(c) == mpc[c] \in {"building", "frozen"}

Constructed(c) == mpc[c] \in {"building", "panicked", "frozen"}

\* the fixed-width numeric types of 8 to 128 bits
NumericTypes == IntegerTypes \cup FloatTypes \cup {"Decimal128"}

\* bytes [w * (i - 1) + 1, w * i] of the value buffer: row i of width w
RowBytes(buf, w, i) == SubSeq(buf, w * (i - 1) + 1, w * i)

\* C21 as stated: on a builder of an integer, float or boolean type every
\* push_non_null_item call is accepted: it appends one row, adds one to len
\* and, for a nullable field, sets the validity bit of the row.
C21_PushValueAccepted ==
    \A c \in Columns :
        (Constructed(c)
            /\ cols[c].data_type \in IntegerTypes \cup FloatTypes \cup {"Boolean"}) =>
            /\ mpc[c] # "panicked"
            /\ cols[c].len = Len(ops[c])
            /\ cols[c].nullable =>
                  \A i \in 1..Len(ops[c]) :
                      IsItemOp(ops[c][i]) => cols[c].null_buffer[i] = 1

C23_NoNullBitmap ==
    \A c \in Columns :
        (Constructed(c) /\ ~cols[c].nullable) =>
            /\ cols[c].null_buffer = <<>>
            /\ frozen[c].built =>
                  (frozen[c].null_count = 0 /\ frozen[c].null_bit_buffer = <<>>)

\* C24 as stated: for every fixed-width numeric type of 8 to 128 bits
\* new_buffers asks for width * capacity bytes for the value buffer and for
\* no secondary buffer.
C24_ValueBufferRequest ==
    \A c \in Columns :
        (Constructed(c) /\ cols[c].data_type \in NumericTypes) =>
            /\ cols[c].requested1 = Width(cols[c].data_type) * hint[c]
            /\ cols[c].requested2 = 0

\* an Expr holds a comparison with the literal string "null"
RECURSIVE ComparesWithNull(_)
ComparesWithNull(e) ==
    CASE e.kind = "Not" -> ComparesWithNull(e.inner)
      [] e.kind = "BinaryExpr" ->
            ComparesWithNull(e.left) \/ ComparesWithNull(e.right)
      [] e.kind = "Literal" -> e.value = Null
      [] OTHER -> FALSE

\* C25: for every column name c, parse returns the test "c is null" for
\* eq(c, null) and the test "c is not null" for noteq(c, null); no Expr it
\* returns compares anything with the literal string "null".
C25_NullTests ==
    ppc = "done" =>
        /\ \A c \in ColumnNames :
              /\ filter_str = Call(Eq, c, <<",", " ">>, Null, <<")">>)
                    => pexpr = IsNull(c)
              /\ filter_str = Call(NotEq, c, <<",", " ">>, Null, <<")">>)
                    => pexpr = IsNotNull(c)
        /\ ~ComparesWithNull(pexpr)

\* C25 witness: noteq(d, null) was parsed, d a column the type map does not
\* hold.
C25_Witness ==
    /\ ppc = "done"
    /\ filter_str = Call(NotEq, <<"d">>, <<",", " ">>, Null, <<")">>)
    /\ pexpr.kind = "IsNotNull"

\* the parentheses of a string are malformed: their counts differ, or a
\* closing one comes before its opening one (a string whose final closing
\* parenthesis is missing is among the first)
Malformed(s) ==
    \/ Depth(s, Len(s)) # 0
    \/ \E n \in 1..Len(s) : Depth(s, n) < 0

\* C26 as stated: parse fails on every filter string whose parentheses are
\* malformed and returns no Expr for it.
C26_MalformedFails ==
    (ppc = "done" /\ Malformed(filter_str)) => pexpr.kind = "Panic"

\* C27: a write_record_batch of the plain writer that returns Ok leaves the
\* upload buffer empty, every byte the encoder produced so far forwarded.
C27_BufferDrained ==
    [][(kind = "plain" /\ writes' = writes + 1 /\ lastWrite' = "Ok") =>
           (mpw'.in_mem_buf = <<>> /\ mpw'.forwarded = mpw'.produced)]_vars

\* C27 witness: the second write of a plain writer returned Ok after the
\* encoder had flushed a row group.
C27_Witness ==
    /\ kind = "plain"
    /\ wstate = "open"
    /\ writes = 2
    /\ lastWrite = "Ok"
    /\ firstWriteErr = "none"
    /\ Len(mpw.produced) > 1

\* C28 as stated: the null bitmap of a nullable builder has a bit for every
\* appended row (ceil(len / 8) bytes at least); the bit of row i is set if
\* and only if the i-th call was push_non_null_item.
C28_NullBitmap ==
    \A c \in Columns :
        (Built(c) /\ cols[c].nullable) =>
            /\ Len(cols[c].null_buffer) \div 8 >= Ceil8(cols[c].len)
            /\ \A i \in 1..cols[c].len :
                  /\ i <= Len(cols[c].null_buffer)
                  /\ cols[c].null_buffer[i] = 1 <=> IsItemOp(ops[c][i])

C30_FrozenBuffers ==
    \A c \in Columns :
        frozen[c].built =>
            LET b == cols[c]
                dt == b.data_type
            IN  CASE dt \in NoBufferTypes -> frozen[c].buffers = <<>>
                  [] dt \in BinaryTypes ->
                        /\ frozen[c].buffers = <<b.buffer1, b.buffer2>>
                        /\ b.requested1 = (1 + hint[c]) * OffsetWidth(dt)
                        /\ b.requested2 = hint[c]
                        /\ RowBytes(b.buffer1, OffsetWidth(dt), 1) = Zeros(OffsetWidth(dt))
                  [] dt = "UnionSparse" ->
                        /\ frozen[c].buffers = <<b.buffer1>>
                        /\ b.requested1 = hint[c]
                  [] dt = "UnionDense" ->
                        /\ frozen[c].buffers = <<b.buffer1, b.buffer2>>
                        /\ b.requested1 = hint[c]
                        /\ b.requested2 = 4 * hint[c]
                  [] OTHER -> frozen[c].buffers = <<b.buffer1>>

\* C30 witness: a dense union and a string column can be frozen from
\* builders created with a capacity.
C30_Witness ==
    \E c \in Columns :
        /\ frozen[c].built
        /\ cols[c].data_type \in {"UnionDense", "Utf8"}
        /\ hint[c] > 0

\* C31 as stated: a call of a two-argument function is split at its
\* top-level comma into the whole left and the whole right operand, with or
\* without a blank after the comma: a comparison of a string column yields
\* that column and the literal in full, and the commas inside the operands
\* of and(..., ...) do not split the call.
C31_SplitAtComma ==
    ppc = "done" =>
        /\ \A op \in ComparisonOps, sep \in {<<",", " ">>, <<",">>},
              r \in {<<"1">>, <<"x", "y">>} :
              filter_str = Call(op, <<"a", ".", "b">>, sep, r, <<")">>) =>
                  pexpr = BinaryExpr([kind |-> "Column", column |-> <<"a", ".", "b">>],
                                     op,
                                     [kind |-> "Literal", type |-> "Utf8", value |-> r])
        /\ filter_str =
              Call(And, Call(Eq, <<"c">>, <<",", " ">>, Null, <<")">>), <<",", " ">>,
                   Call(NotEq, <<"d">>, <<",", " ">>, Null, <<")">>), <<")">>)
              => pexpr = BinaryExpr(IsNull(<<"c">>), And, IsNotNull(<<"d">>))

\* C32: once flush_and_close of a SortAsyncWriter has been called, the
\* background task ends and flush_and_close returns; a write_record_batch
\* that waits for the channel is woken, and one issued after the task has
\* ended returns a send error at once.
C32_SortCloseTerminates ==
    /\ (kind = "sort" /\ wstate = "closing") ~> (tpc = "done" /\ wstate = "closed")
    /\ (pending # <<>>) ~> (pending = <<>>)
    /\ [][(kind = "sort" /\ tpc = "done" /\ writes' = writes + 1) =>
              (pending' = <<>> /\ lastWrite' = "SendError")]_vars

\* C32 witness: the sort failed, a write_record_batch issued after it
\* returned the error, and flush_and_close returned.
C32_Witness ==
    /\ kind = "sort"
    /\ wstate = "closed"
    /\ taskFailure = "sort"
    /\ lastWrite = "SendError"
    /\ flushResult # "none"

\* C33: while the Sender of a SortAsyncWriter is open the inner writer is as
\* it was constructed (no batch written, no byte forwarded); every step
\* that changes the inner writer is taken with the queue closed, and no
\* batch is accepted once the inner writer has changed.
C33_NoWriteBeforeClose ==
    /\ []((kind = "sort" /\ senderOpen) => mpw = NewWriter)
    /\ [][(kind = "sort" /\ mpw' # mpw) =>
              (~senderOpen /\ pending = <<>> /\ accepted' = accepted)]_vars
    /\ [][(kind = "sort" /\ mpw # NewWriter) => accepted' = accepted]_vars

\* C33 witness: two batches were accepted, the queue was closed, and sorted
\* rows reached the network writer.
C33_Witness ==
    /\ kind = "sort"
    /\ ~senderOpen
    /\ Len(accepted) >= 2
    /\ Len(FileRows) >= 2

\* occurrences of the row r in rows
Count(rows, r) == Cardinality({i \in 1..Len(rows) : rows[i] = r})

\* C34: when SortAsyncWriter::flush_and_close returns Ok, the rows written
\* to the inner writer, and the rows of the file, are the rows of the
\* batches whose write_record_batch returned Ok, each as often as submitted.
C34_Permutation ==
    (kind = "sort" /\ flushResult = "Ok") =>
        LET input == Flatten(accepted)
        IN  /\ Len(InnerRows) = Len(input)
            /\ \A i \in 1..Len(input) :
                  Count(InnerRows, input[i]) = Count(input, input[i])
            /\ FileRows = InnerRows

\* C34 witness: a closed sorting writer wrote three rows, one of them
\* twice, in another order than they were submitted.
C34_Witness ==
    /\ kind = "sort"
    /\ flushResult = "Ok"
    /\ Len(FileRows) = 3
    /\ FileRows # Flatten(accepted)
    /\ \E i \in 1..3 : Count(FileRows, FileRows[i]) = 2

\* C35 as stated: next_rb never executes against a stream that was not
\* initialized: whenever a next_rb has returned a batch or None, or has
\* brought the process down, a start had completed successfully before.
C35_NextRbAfterStart ==
    (rout # <<>> \/ rend \/ rstate = "crashed") => stream # <<>>

\* C36: the frozen column carries a null bitmap if and only if null_count
\* is greater than 0, which is if and only if a push_null was applied; the
\* bitmap is the builder's null buffer; a nullable builder that received
\* only non-null values freezes into a column without a null bitmap.
C36_BitmapIffNulls ==
    \A c \in Columns :
        frozen[c].built =>
            /\ frozen[c].null_bit_buffer # <<>> <=> frozen[c].null_count > 0
            /\ frozen[c].null_count > 0 <=>
                   \E i \in 1..Len(ops[c]) : IsNullOp(ops[c][i])
            /\ frozen[c].null_bit_buffer \in {<<>>, <<cols[c].null_buffer>>}
            /\ (cols[c].nullable /\ \A i \in 1..Len(ops[c]) : IsItemOp(ops[c][i]))
                  => frozen[c].null_bit_buffer = <<>>

\* C36 witness: a nullable column that received one value and no null was
\* frozen without a bitmap, and a nullable column that received a null was
\* frozen with the bitmap of its builder.
C36_Witness ==
    \E c, d \in Columns :
        /\ frozen[c].built /\ cols[c].nullable
        /\ ops[c] = <<"item">>
        /\ frozen[c].null_bit_buffer = <<>>
        /\ frozen[d].built /\ cols[d].nullable
        /\ \E i \in 1..Len(ops[d]) : IsNullOp(ops[d][i])
        /\ frozen[d].null_bit_buffer = <<cols[d].null_buffer>>
        /\ cols[d].null_buffer # <<>>

\* C37: a flush_and_close called on a writer facade once every write_batch
\* call has returned finds the facade the sole owner of the inner writer:
\* it is not refused, and the inner writer's flush_and_close runs.
C37_SoleOwner ==
    [][(/\ fkind = "writer"
        /\ ~fclosed /\ fclosed'
        /\ \A u \in Tasks : fop[u] = "write" => fpc[u] = "done")
       => (/\ \A t \in Tasks : fop'[t] # "flush_refused"
           /\ \E t \in Tasks : fop'[t] = "flush" /\ fpc'[t] = "running")]_vars

\* C37 witness: two write_batch calls have returned and the flush_and_close
\* called after them runs the flush_and_close of the inner writer.
C37_Witness ==
    /\ fkind = "writer"
    /\ fclosed
    /\ \E t, u, v \in Tasks :
          /\ u # v
          /\ fop[u] = "write" /\ fpc[u] = "done"
          /\ fop[v] = "write" /\ fpc[v] = "done"
          /\ fop[t] = "flush" /\ fpc[t] = "running"

=============================================================================
